---------------------------- MODULE Spec2Model ----------------------------
(***************************************************************************)
(* A model of the wagmi WebAssembly interpreter's instance layer:          *)
(* the process-wide instance registry (InstanceManager), reference-counted *)
(* function references (FuncRef), tables (WasmTable), linear memory        *)
(* (WasmMemory), Instance::instantiate and the call_indirect dispatch of   *)
(* Instance::interpret.                                                    *)
(*                                                                         *)
(* Representation choices:                                                 *)
(*  - a 64-bit funcref handle is the pair <<hi32, lo32>>, so that          *)
(*    (handle >> 32) is handle[1] and (handle & 0xFFFF_FFFF) is handle[2]; *)
(*  - a HashMap is a function whose DOMAIN is the set of present keys;     *)
(*  - a Weak<Instance> is the name of the Rc allocation it points to       *)
(*    ("build" = the inst_rc of instantiate, "ext" = an Rc the host        *)
(*    created afterwards); it upgrades iff that allocation is still alive; *)
(*  - a byte buffer is the function from the addresses that were written   *)
(*    to their bytes, every other address below its length being zero;     *)
(*  - a function body is one of a few abstract programs (Body);            *)
(*  - a Rust panic (RefCell double borrow, index out of range) stops the   *)
(*    program: it sets panicked and leaves the rest of the state as it     *)
(*    was before the operation; nothing runs afterwards.                   *)
(***************************************************************************)
EXTENDS Integers, Sequences, FiniteSets, TLC

\* ------------------------------------------------------------------ bounds
MaxInst == 2
MaxTables == 1
MaxTableLen == 2
MaxMems == 1

\* -------------------------------------------------------- program constants
PAGE_SIZE == 65536
MAX_PAGES == 65536

NoStart == -1

InstIds == 1..MaxInst
TableIds == 1..MaxTables
MemIds == 1..MaxMems

\* ------------------------------------------------------------ error values
Ok == [kind |-> "Ok", msg |-> ""]
Trap(m) == [kind |-> "Trap", msg |-> m]
Link(m) == [kind |-> "Link", msg |-> m]
Validation(m) == [kind |-> "Validation", msg |-> m]
Malformed(m) == [kind |-> "Malformed", msg |-> m]
Uninstantiable(m) == [kind |-> "Uninstantiable", msg |-> m]

FUNC_NO_IMPL == "function has no implementation"
INDIRECT_CALL_MISMATCH == "indirect call type mismatch"
UNDEF_ELEM == "undefined element"
UNINITIALIZED_ELEM == "uninitialized element"
UNREACHABLE == "unreachable"
STACK_EXHAUSTED == "call stack exhausted"
OOB_TABLE_ACCESS == "out of bounds table access"
OOB_MEMORY_ACCESS == "out of bounds memory access"
UNKNOWN_MEMORY == "unknown memory"
UNKNOWN_TABLE == "unknown table"
UNEXPECTED_END == "unexpected end of section or function"
INVALID_SECTION_ID == "invalid section id"
JUNK_AFTER_LAST == "junk after last section"
SECTION_SIZE_MISMATCH == "section size mismatch"
UNKNOWN_FUNC == "unknown function"
UNKNOWN_GLOBAL == "unknown global"
DUP_EXPORT_NAME == "duplicate export name"
START_FUNC == "start function"
INVALID_NUM_ARG == "invalid number of arguments"
DATA_SEG_DNF == "data segment does not fit"
ELEM_SEG_DNF == "elements segment does not fit"
INCOMPATIBLE_IMPORT == "incompatible import type"
UNKNOWN_IMPORT == "unknown import"

\* --------------------------------------------------------------- sequences
Range(s) == {s[i] : i \in DOMAIN s}

\* ------------------------------------------------------- value types, sigs
I32 == "i32"
I64 == "i64"
F32 == "f32"
F64 == "f64"

HAS_RESULT == 65536
HAS_I32 == 131072
HAS_I64 == 262144
HAS_F32 == 524288
HAS_F64 == 1048576

NoResult == "none"

Signature(params, result) == [params |-> params, result |-> result]

\* the bit set_type_bit32 ors into the word for a value type
TypeBit(t) ==
  CASE t = I32 -> HAS_I32
    [] t = I64 -> HAS_I64
    [] t = F32 -> HAS_F32
    [] t = F64 -> HAS_F64
    [] OTHER -> 0

\* the types whose presence bit is set: all params and the result
TypesPresent(sig) ==
  Range(sig.params) \cup (IF sig.result = NoResult THEN {} ELSE {sig.result})

\* RuntimeSignature::from_signature: the packed 32-bit word
from_signature(sig) ==
  (Len(sig.params) % 65536)
  + (IF sig.result # NoResult THEN HAS_RESULT ELSE 0)
  + (IF I32 \in TypesPresent(sig) THEN HAS_I32 ELSE 0)
  + (IF I64 \in TypesPresent(sig) THEN HAS_I64 ELSE 0)
  + (IF F32 \in TypesPresent(sig) THEN HAS_F32 ELSE 0)
  + (IF F64 \in TypesPresent(sig) THEN HAS_F64 ELSE 0)

n_params(rs) == rs % 65536
has_result(rs) == (rs \div HAS_RESULT) % 2 = 1

\* ----------------------------------------------------------------- handles
NULL == <<0, 0>>
owner_id(h) == h[1]
LowBits(h) == h[2]


\* ------------------------------------------------------------------- state
VARIABLES
  registry,          \* InstanceManager.registry: id -> Weak<Instance>
  refcounts,         \* InstanceManager.refcounts: id -> usize
  zombie_instances,  \* InstanceManager.zombie_instances: the ids held
  next_id,           \* InstanceManager.next_id
  tables,            \* the Rc<RefCell<WasmTable>> allocations
  memories,          \* the Rc<RefCell<WasmMemory>> allocations
  instances,         \* the Instance objects, by id
  cur,               \* the Instance::instantiate call in progress, if any
  last,              \* what the last completed API call did and returned
  panicked,          \* the program has panicked
  run,               \* the interpreter activations of the invoke in progress
  hostmem,           \* a WasmMemory the host works on, and its last call
  compiled           \* the last Module::compile call: section ids, decoded
                     \* contents where they are modelled, and result

vars == <<registry, refcounts, zombie_instances, next_id, tables, memories,
          instances, cur, last, panicked, run, hostmem, compiled>>

\* no invoke is being interpreted
NoRun == [status |-> "none", program |-> 0, acts |-> <<>>, result |-> <<>>,
          error |-> Ok]

\* Module::compile has not been called
NoCompile == [called |-> FALSE, ids |-> <<>>, res |-> Ok, decl |-> <<>>]

\* the part of the state that library code reads and writes, as one record
World ==
  [registry |-> registry, refcounts |-> refcounts,
   zombie_instances |-> zombie_instances, next_id |-> next_id,
   tables |-> tables, memories |-> memories, instances |-> instances,
   panicked |-> panicked]

NoTable == [live |-> FALSE, elements |-> <<>>, maximum |-> 0, hostHeld |-> FALSE]
NoMemory == [live |-> FALSE, current |-> 0, maximum |-> 0, data |-> <<>>,
             hostHeld |-> FALSE]

\* the host has no WasmMemory of its own to call
NoMem == [m |-> NoMemory, pre |-> NoMemory, op |-> [name |-> "none"]]

EmptyModule ==
  [types |-> <<>>, functions |-> <<>>, table |-> [kind |-> "none", min |-> 0, max |-> 0],
   memory |-> [kind |-> "none", min |-> 0, max |-> 0],
   elements |-> <<>>, data_segments |-> <<>>, start |-> NoStart]

\* Instance.module, restricted to the fields of the module that are read
\* once the instance is linked: the type table (call_indirect) and the
\* function descriptors (their bodies and declared signatures)
Loaded(M) == [EmptyModule EXCEPT !.types = M.types, !.functions = M.functions]

\* holder: who owns the Instance object
\*   "none"     no instance with this id was built yet
\*   "building" the inst_rc local of a running instantiate
\*   "host"     returned by value to the host
\*   "host_rc"  moved by the host into an Rc of its own
\*   "zombie"   the inst_rc moved into zombie_instances
\*   "dropped"  destroyed
NoInst ==
  [holder |-> "none", trapped |-> FALSE, module |-> EmptyModule, table |-> 0,
   memory |-> 0, functions |-> <<>>]
DroppedInst(trapped) == [NoInst EXCEPT !.holder = "dropped", !.trapped = trapped]

AliveHolders == {"building", "host", "host_rc", "zombie"}

\* the strong count of the table's Rc is not zero
TableHeld(W, t) ==
  \/ W.tables[t].hostHeld
  \/ \E i \in InstIds : W.instances[i].holder \in AliveHolders /\ W.instances[i].table = t

MemoryHeld(W, m) ==
  \/ W.memories[m].hostHeld
  \/ \E i \in InstIds : W.instances[i].holder \in AliveHolders /\ W.instances[i].memory = m

Panic(W) == [W EXCEPT !.panicked = TRUE]

\* ------------------------------------------------------- InstanceManager
allocate_id(W) == [W EXCEPT !.next_id = @ + 1]

\* faulty variant: the weak handle is never inserted
register_instance_skip(W, id, rc) == W

register_instance(W, id, rc) ==
  [W EXCEPT !.registry = [k \in DOMAIN @ \cup {id} |-> IF k = id THEN rc ELSE @[k]]]

\* the Rc allocation a weak handle names is still alive
RcAlive(W, id, rc) ==
  /\ id \in InstIds
  /\ \/ rc = "build" /\ W.instances[id].holder \in {"building", "zombie"}
     \/ rc = "ext" /\ W.instances[id].holder = "host_rc"

\* Option<Rc<Instance>>: TRUE iff Some
get_instance(W, id) ==
  \/ id \in W.zombie_instances
  \/ id \in DOMAIN W.registry /\ RcAlive(W, id, W.registry[id])

inc_ref(W, id) ==
  [W EXCEPT !.refcounts =
     [k \in DOMAIN @ \cup {id} |-> IF k \in DOMAIN @ THEN (IF k = id THEN @[k] + 1 ELSE @[k])
                                                  ELSE 1]]

has_refs(W, id) == id \in DOMAIN W.refcounts /\ W.refcounts[id] > 0

\* A WasmTable dropped while the registry is mutably borrowed: dropping a
\* non-null FuncRef borrows the registry again, which panics.
DestroyTableInBorrow(W, t) ==
  IF \E i \in DOMAIN W.tables[t].elements : W.tables[t].elements[i] # NULL
  THEN Panic(W)
  ELSE [W EXCEPT !.tables[t] = NoTable]

DestroyMemory(W, m) == [W EXCEPT !.memories[m] = NoMemory]

\* the fields of a dropped Instance: memory, then table
ReleaseFieldsInBorrow(W, t, m) ==
  LET W1 == IF m # 0 /\ ~MemoryHeld(W, m) THEN DestroyMemory(W, m) ELSE W
  IN IF t # 0 /\ ~TableHeld(W1, t) THEN DestroyTableInBorrow(W1, t) ELSE W1

\* the last Rc<Instance> dropped inside InstanceManager::with / borrow_mut
DropInstanceInBorrow(W, id) ==
  LET inst == W.instances[id]
      W1 == [W EXCEPT !.instances[id] = DroppedInst(inst.trapped)]
  IN ReleaseFieldsInBorrow(W1, inst.table, inst.memory)

\* faulty variant: the zombie holdover is not removed at zero
dec_ref_keep(W, id) ==
  IF id \in DOMAIN W.refcounts /\ W.refcounts[id] > 0
  THEN [W EXCEPT !.refcounts[id] = @ - 1]
  ELSE W

dec_ref(W, id) ==
  IF id \in DOMAIN W.refcounts /\ W.refcounts[id] > 0
  THEN LET W1 == [W EXCEPT !.refcounts[id] = @ - 1]
       IN IF W1.refcounts[id] = 0 /\ id \in W1.zombie_instances
          THEN DropInstanceInBorrow(
                 [W1 EXCEPT !.zombie_instances = @ \ {id}], id)
          ELSE W1
  ELSE W

\* faulty variant: inserts without asking has_refs
add_zombie_unchecked(W, id) ==
  [W EXCEPT !.zombie_instances = @ \cup {id}, !.instances[id].holder = "zombie"]

\* add_zombie consumes the Rc: when it is not inserted it is dropped at the
\* end of add_zombie, still inside the registry borrow
add_zombie(W, id) ==
  IF has_refs(W, id)
  THEN [W EXCEPT !.zombie_instances = @ \cup {id}, !.instances[id].holder = "zombie"]
  ELSE DropInstanceInBorrow(W, id)

\* ----------------------------------------------------------------- FuncRef
U32_MAX_IDX == -1

\* FuncRef::new: <<world, handle>>
FuncRef_new(W, owner, func_idx) ==
  IF owner = 0 \/ func_idx = U32_MAX_IDX
  THEN <<W, NULL>>
  ELSE <<inc_ref(W, owner), <<owner, func_idx + 1>>>>

FuncRef_from_raw(W, h) == IF h # NULL THEN inc_ref(W, owner_id(h)) ELSE W

FuncRef_clone(W, h) == IF h # NULL THEN inc_ref(W, owner_id(h)) ELSE W

FuncRef_drop(W, h) ==
  IF W.panicked THEN W
  ELSE IF h # NULL THEN dec_ref(W, owner_id(h)) ELSE W

RECURSIVE DropAll(_, _)
DropAll(W, hs) ==
  IF hs = <<>> THEN W ELSE DropAll(FuncRef_drop(W, Head(hs)), Tail(hs))

\* a WasmTable dropped outside any registry borrow: every slot is dropped
DestroyTable(W, t) ==
  DropAll([W EXCEPT !.tables[t] = NoTable], W.tables[t].elements)

\* the last owner of an Instance drops it outside any registry borrow
DropInstance(W, id) ==
  LET inst == W.instances[id]
      W1 == [W EXCEPT !.instances[id] = DroppedInst(inst.trapped)]
      W2 == IF inst.memory # 0 /\ ~MemoryHeld(W1, inst.memory)
            THEN DestroyMemory(W1, inst.memory) ELSE W1
  IN IF inst.table # 0 /\ ~TableHeld(W2, inst.table)
     THEN DestroyTable(W2, inst.table) ELSE W2

\* --------------------------------------------------------------- WasmTable
WasmTable_new(initial, maximum) ==
  [live |-> TRUE, elements |-> [i \in 1..initial |-> NULL], maximum |-> maximum,
   hostHeld |-> FALSE]

size(tab) == Len(tab.elements)

GrowFailed == -1

\* faulty variant: the new slots are filled without counting the clones
WasmTable_grow_uncounted(W, t, delta, value) ==
  LET tab == W.tables[t]
      current == size(tab)
  IN IF delta = 0 THEN <<W, current>>
     ELSE IF current + delta > tab.maximum THEN <<W, GrowFailed>>
     ELSE <<[FuncRef_from_raw(W, value) EXCEPT !.tables[t].elements =
               @ \o [i \in 1..delta |-> value]], current>>

\* WasmTable::grow: <<world, returned value>>
WasmTable_grow(W, t, delta, value) ==
  LET tab == W.tables[t]
      current == size(tab)
      sat == IF tab.maximum >= current THEN tab.maximum - current ELSE 0
  IN IF delta = 0 THEN <<W, current>>
     ELSE IF delta > sat THEN <<W, GrowFailed>>
     ELSE LET W1 == FuncRef_from_raw(W, value)
              \* Vec::resize clones the value delta - 1 times and moves it
              Clones[k \in 0..(delta - 1)] ==
                IF k = 0 THEN W1 ELSE FuncRef_clone(Clones[k - 1], value)
              W2 == Clones[delta - 1]
          IN <<[W2 EXCEPT !.tables[t].elements =
                  @ \o [i \in 1..delta |-> value]], current>>

\* WasmTable::get: <<result, value>>
WasmTable_get(tab, idx) ==
  IF idx >= size(tab) THEN <<OOB_TABLE_ACCESS, NULL>> ELSE <<"", tab.elements[idx + 1]>>

\* faulty variant: the old slot value is overwritten without being dropped
WasmTable_set_leak(W, t, idx, value) ==
  LET tab == W.tables[t]
  IN IF idx >= size(tab) THEN <<W, OOB_TABLE_ACCESS>>
     ELSE <<[FuncRef_from_raw(W, value) EXCEPT !.tables[t].elements[idx + 1] = value], "">>

\* WasmTable::set: <<world, "" or the error>>; the old slot value is dropped
\* after the new FuncRef was made
WasmTable_set(W, t, idx, value) ==
  LET tab == W.tables[t]
  IN IF idx >= size(tab) THEN <<W, OOB_TABLE_ACCESS>>
     ELSE LET old == tab.elements[idx + 1]
              W1 == FuncRef_from_raw(W, value)
              W2 == [W1 EXCEPT !.tables[t].elements[idx + 1] = value]
          IN <<FuncRef_drop(W2, old), "">>


\* -------------------------------------------------------------- WasmMemory
WasmMemory_new(initial, maximum) ==
  [live |-> TRUE, current |-> initial,
   maximum |-> IF maximum < MAX_PAGES THEN maximum ELSE MAX_PAGES,
   data |-> <<>>, hostHeld |-> FALSE]

\* data.len()
DataLen(mem) == mem.current * PAGE_SIZE

ByteAt(mem, a) == IF a \in DOMAIN mem.data THEN mem.data[a] ELSE 0

\* WasmMemory::write_bytes: <<memory, "" or the error>>
write_bytes(mem, offset, bytes) ==
  LET end == offset + Len(bytes)
  IN IF end > DataLen(mem) THEN <<mem, OOB_MEMORY_ACCESS>>
     ELSE LET written == {offset + k - 1 : k \in 1..Len(bytes)}
              val(a) == IF a \in written THEN bytes[a - offset + 1] ELSE mem.data[a]
              keep == {a \in DOMAIN mem.data \cup written : val(a) # 0}
          IN <<[mem EXCEPT !.data = [a \in keep |-> val(a)]], "">>

\* ------------------------------------------------- modules and their bodies
\* An abstract function body: what interpret does when it runs the body.
\*   "end"            the body returns at once
\*   "unreachable"    opcode 0x00
\*   "load"           a memory load at address 0, then return
\*   "call_indirect"  i32.const elem; call_indirect type; then return
Body(op, elem, type) == [op |-> op, elem |-> elem, type |-> type]
BodyEnd == Body("end", 0, 0)
BodyUnreachable == Body("unreachable", 0, 0)
BodyLoad == Body("load", 0, 0)
BodyCallIndirect(e, k) == Body("call_indirect", e, k)

Function(ty, import, body) == [ty |-> ty, import |-> import, body |-> body]
Limits(kind, min, max) == [kind |-> kind, min |-> min, max |-> max]
Segment(offset, items) == [offset |-> offset, items |-> items]

\* ------------------------------------------------------- RuntimeFunction
OwnedWasm(rs, body) ==
  [kind |-> "OwnedWasm", runtime_sig |-> rs, body |-> body, owner |-> 0,
   function_index |-> 0]
ImportedWasm(rs, owner, idx) ==
  [kind |-> "ImportedWasm", runtime_sig |-> rs, body |-> BodyEnd, owner |-> owner,
   function_index |-> idx]
NoExport == [kind |-> "absent", runtime_sig |-> 0, body |-> BodyEnd, owner |-> 0,
             function_index |-> 0]

\* Weak<Instance>::upgrade of an ImportedWasm owner: the host's Rc of it
OwnerUpgrades(W, owner) ==
  owner \in InstIds /\ W.instances[owner].holder = "host_rc"

\* ---------------------------------------------------------- instantiate
Idle ==
  [phase |-> "idle", id |-> 0, start |-> NoStart, collected |-> <<>>,
   pending |-> <<>>, snap |-> <<>>]

NoLast == [op |-> "none", id |-> 0, func |-> 0, res |-> Ok, startRes |-> Ok,
           entered |-> {}, calleeErr |-> Ok]

\* what the caller could observe of shared state when instantiate began
Snapshot(W) == [tables |-> W.tables, memories |-> W.memories, refcounts |-> W.refcounts]

FreeTables(W) == {t \in TableIds : ~W.tables[t].live}
FreeMems(W) == {m \in MemIds : ~W.memories[m].live}

\* resolve the memory (lines 312-327): <<error or Ok, memory id or 0, world>>
ResolveMemory(W, M, imp) ==
  IF M.memory.kind = "none" THEN <<Ok, 0, W>>
  ELSE IF M.memory.kind = "import"
  THEN IF imp.memory = 0 THEN <<Link(UNKNOWN_IMPORT), 0, W>>
       ELSE IF \/ W.memories[imp.memory].current < M.memory.min
               \/ W.memories[imp.memory].maximum > M.memory.max
            THEN <<Link(INCOMPATIBLE_IMPORT), 0, W>>
            ELSE <<Ok, imp.memory, W>>
  ELSE LET m == CHOOSE x \in FreeMems(W) : \A y \in FreeMems(W) : x <= y
       IN <<Ok, m, [W EXCEPT !.memories[m] = WasmMemory_new(M.memory.min, M.memory.max)]>>

\* resolve the table (lines 330-345)
ResolveTable(W, M, imp) ==
  IF M.table.kind = "none" THEN <<Ok, 0, W>>
  ELSE IF M.table.kind = "import"
  THEN IF imp.table = 0 THEN <<Link(UNKNOWN_IMPORT), 0, W>>
       ELSE IF \/ size(W.tables[imp.table]) < M.table.min
               \/ W.tables[imp.table].maximum > M.table.max
            THEN <<Link(INCOMPATIBLE_IMPORT), 0, W>>
            ELSE <<Ok, imp.table, W>>
  ELSE LET t == CHOOSE x \in FreeTables(W) : \A y \in FreeTables(W) : x <= y
       IN <<Ok, t, [W EXCEPT !.tables[t] = WasmTable_new(M.table.min, M.table.max)]>>

\* resolve the functions (lines 348-368): <<error or Ok, function vector>>
RECURSIVE ResolveFunctions(_, _, _)
ResolveFunctions(fs, imp, acc) ==
  IF fs = <<>> THEN <<Ok, acc>>
  ELSE LET f == Head(fs)
       IN IF f.import
          THEN IF imp.func.kind = "absent" THEN <<Link(UNKNOWN_IMPORT), acc>>
               ELSE IF imp.func.runtime_sig # from_signature(f.ty)
                    THEN <<Link(INCOMPATIBLE_IMPORT), acc>>
                    ELSE ResolveFunctions(Tail(fs), imp, Append(acc, imp.func))
          ELSE ResolveFunctions(Tail(fs), imp,
                                Append(acc, OwnedWasm(from_signature(f.ty), f.body)))

\* faulty variant: the segments are collected without the bounds check
CollectElements_unchecked(segs, tab, acc) == <<Ok, acc \o segs>>

\* collect the element segments (lines 391-418): <<error or Ok, collected>>
RECURSIVE CollectElements(_, _, _)
CollectElements(segs, tab, acc) ==
  IF segs = <<>> THEN <<Ok, acc>>
  ELSE LET seg == Head(segs)
       IN IF seg.offset + Len(seg.items) > size(tab)
          THEN <<Link(ELEM_SEG_DNF), acc>>
          ELSE CollectElements(Tail(segs), tab, Append(acc, seg))

\* collect the data segments (lines 421-439): <<error or Ok, pending>>
RECURSIVE CollectData(_, _, _)
CollectData(segs, mem, acc) ==
  IF segs = <<>> THEN <<Ok, acc>>
  ELSE LET seg == Head(segs)
       IN IF seg.offset + Len(seg.items) > mem.current * PAGE_SIZE
          THEN <<Link(DATA_SEG_DNF), acc>>
          ELSE CollectData(Tail(segs), mem, Append(acc, seg))

\* the writes of the collected segments in program order: <<slot, func_idx>>
RECURSIVE Writes(_)
Writes(collected) ==
  IF collected = <<>> THEN <<>>
  ELSE LET seg == Head(collected)
       IN [j \in 1..Len(seg.items) |-> <<seg.offset + j - 1, seg.items[j]>>]
          \o Writes(Tail(collected))

\* one iteration of the inner loop of lines 445-459: <<world, "" or error>>
ApplyOne(W, id, t, slot, func_idx) ==
  LET f == W.instances[id].functions[func_idx + 1]
      own == IF f.kind = "ImportedWasm" /\ OwnerUpgrades(W, f.owner)
             THEN <<f.owner, f.function_index>>
             ELSE <<id, func_idx>>
      made == FuncRef_new(W, own[1], own[2])
      wrote == WasmTable_set(made[1], t, slot, made[2])
  IN <<FuncRef_drop(wrote[1], made[2]), wrote[2]>>

\* lines 442-461: <<world, "" or error>>; stops at the first failing set
RECURSIVE ApplyWrites(_, _, _, _)
ApplyWrites(W, id, t, ws) ==
  IF ws = <<>> \/ W.panicked THEN <<W, "">>
  ELSE LET r == ApplyOne(W, id, t, Head(ws)[1], Head(ws)[2])
       IN IF r[2] # "" THEN r ELSE ApplyWrites(r[1], id, t, Tail(ws))

\* lines 464-471: <<memory, "" or error>>
RECURSIVE ApplyData(_, _)
ApplyData(mem, pending) ==
  IF pending = <<>> THEN <<mem, "">>
  ELSE LET r == write_bytes(mem, Head(pending).offset, Head(pending).items)
       IN IF r[2] # "" THEN r ELSE ApplyData(r[1], Tail(pending))


\* ------------------------------------------------------------- interpreter
\* The outcome of running a function to completion:
\*   res        Ok or the error returned
\*   entered    the <<instance id, function index>> of every wasm frame set up
\*   calleeErr  the error a cross-instance call_indirect callee returned
\*              (the _e of line 1063), Ok if there was none
\*   panic      the run panicked
Outcome(res, entered, calleeErr, panic) ==
  [res |-> res, entered |-> entered, calleeErr |-> calleeErr, panic |-> panic]

Returned(res, entered) == Outcome(res, entered, Ok, FALSE)
Panicked(entered) == Outcome(Ok, entered, Ok, TRUE)

\* what the cross-instance branch of call_indirect returns for the callee's
\* result (lines 1058-1075): a failed callee leaves dispatched = false
CrossResult(calleeRes) == IF calleeRes = Ok THEN Ok ELSE Trap(FUNC_NO_IMPL)

\* what the branch returns when the registry has no instance for the owner
\* (lines 1045, 1068-1070): sig_ok is still false
MissingOwnerResult == Trap(INDIRECT_CALL_MISMATCH)

\* callee.signature() == expected (lines 1047, 1079)
SigOk(calleeSig, expected) == calleeSig = expected

RECURSIVE call_function_idx(_, _, _, _, _, _)
RECURSIVE interpret(_, _, _, _, _, _)

\* Instance::call_function_idx on instance id; inBorrow: the registry is
\* mutably borrowed by a caller; frames: the wasm frames of this activation
call_function_idx(W, id, idx, inBorrow, frames, entered) ==
  LET f == W.instances[id].functions[idx + 1]
  IN CASE f.kind = "OwnedWasm" ->
            IF <<id, idx>> \in frames
            THEN Returned(Trap(STACK_EXHAUSTED), entered)
            ELSE interpret(W, id, f.body, inBorrow, frames \cup {<<id, idx>>},
                           entered \cup {<<id, idx>>})
       [] f.kind = "ImportedWasm" ->
            IF OwnerUpgrades(W, f.owner)
            THEN call_function_idx(W, f.owner, f.function_index, inBorrow, frames, entered)
            ELSE Returned(Trap(FUNC_NO_IMPL), entered)
       [] OTHER -> Returned(Ok, entered)

\* Instance::interpret of a body in instance id
interpret(W, id, body, inBorrow, frames, entered) ==
  LET self == W.instances[id]
  IN
  CASE body.op = "end" -> Returned(Ok, entered)
    [] body.op = "unreachable" -> Returned(Trap(UNREACHABLE), entered)
    [] body.op = "load" ->
         IF self.memory = 0 THEN Returned(Validation(UNKNOWN_MEMORY), entered)
         ELSE IF 4 > DataLen(W.memories[self.memory])
              THEN Returned(Trap(OOB_MEMORY_ACCESS), entered)
              ELSE Returned(Ok, entered)
    [] OTHER ->
         \* call_indirect, lines 1008-1115
         IF self.table = 0 THEN Returned(Trap(UNDEF_ELEM), entered)
         ELSE IF body.elem >= size(W.tables[self.table])
         THEN Returned(Trap(UNDEF_ELEM), entered)
         ELSE
         LET handle == WasmTable_get(W.tables[self.table], body.elem)[2]
             owner == owner_id(handle)
             low == LowBits(handle)
             func_idx == low - 1
             expected == from_signature(self.module.types[body.type + 1])
         IN
         IF handle = NULL THEN Returned(Trap(UNINITIALIZED_ELEM), entered)
         ELSE IF low = 0 THEN Returned(Trap(FUNC_NO_IMPL), entered)
         ELSE IF owner # id
         THEN \* InstanceManager::with borrows the registry mutably
              IF inBorrow THEN Panicked(entered)
              ELSE IF ~get_instance(W, owner) THEN Returned(MissingOwnerResult, entered)
              ELSE IF func_idx >= Len(W.instances[owner].functions) THEN Panicked(entered)
              ELSE IF ~SigOk(W.instances[owner].functions[func_idx + 1].runtime_sig, expected)
                   THEN Returned(Trap(INDIRECT_CALL_MISMATCH), entered)
                   ELSE LET r == call_function_idx(W, owner, func_idx, TRUE, {}, entered)
                        IN IF r.panic THEN r
                           ELSE Outcome(CrossResult(r.res), r.entered, r.res, FALSE)
         ELSE IF func_idx >= Len(self.functions) THEN Panicked(entered)
         ELSE
         LET callee == self.functions[func_idx + 1]
         IN IF ~SigOk(callee.runtime_sig, expected)
            THEN Returned(Trap(INDIRECT_CALL_MISMATCH), entered)
            ELSE CASE callee.kind = "ImportedWasm" ->
                        IF OwnerUpgrades(W, callee.owner)
                        THEN call_function_idx(W, callee.owner, callee.function_index,
                                               inBorrow, {}, entered)
                        ELSE Returned(Trap(FUNC_NO_IMPL), entered)
                   [] callee.kind = "OwnedWasm" ->
                        IF <<id, func_idx>> \in frames
                        THEN Returned(Trap(STACK_EXHAUSTED), entered)
                        ELSE interpret(W, id, callee.body, inBorrow,
                                       frames \cup {<<id, func_idx>>},
                                       entered \cup {<<id, func_idx>>})
                   [] OTHER -> Returned(Ok, entered)

\* Instance::invoke of function idx of instance id with the right arity
invoke(W, id, idx) ==
  LET f == W.instances[id].functions[idx + 1]
  IN CASE f.kind = "OwnedWasm" ->
            interpret(W, id, f.body, FALSE, {<<id, idx>>}, {<<id, idx>>})
       [] f.kind = "ImportedWasm" ->
            IF OwnerUpgrades(W, f.owner)
            THEN call_function_idx(W, f.owner, f.function_index, FALSE, {}, {})
            ELSE Returned(Trap(FUNC_NO_IMPL), {})
       [] OTHER -> Returned(Ok, {})


\* ------------------------------------------------------------------ inputs
S0 == Signature(<<>>, NoResult)
S1 == Signature(<<I32, I64>>, NoResult)
S2 == Signature(<<I64, I32>>, NoResult)
S3 == Signature(<<I32>>, NoResult)

\* the type section every module of the catalogue declares
Types == <<S0, S1, S2, S3>>

MkModule(tk, mk, funcs, elems, data, start) ==
  [types |-> Types, functions |-> funcs,
   table |-> Limits(tk, 1, MaxTableLen), memory |-> Limits(mk, 1, 2),
   elements |-> elems, data_segments |-> data, start |-> start]

\* function vectors: one own function, possibly after one imported function
FuncVectors(tys, bodies) ==
  {<<Function(ty, FALSE, b)>> : ty \in tys, b \in bodies}
  \cup {<<Function(ty, TRUE, BodyEnd), Function(S0, FALSE, BodyEnd)>> : ty \in tys}

ElemChoices(n) ==
  {<<>>} \cup {<<Segment(0, <<k>>)>> : k \in 0..(n - 1)}
  \cup {<<Segment(0, <<n - 1>>), Segment(1, <<0>>)>>}

DataChoices == {<<>>, <<Segment(0, <<7>>)>>, <<Segment(0, <<7>>), Segment(65535, <<7, 8>>)>>}

\* Spec: tables, element segments, start functions
Modules ==
  {MkModule(tk, "none", fs, el, <<>>, st) :
     tk \in {"none", "own", "import"},
     fs \in FuncVectors({S0}, {BodyEnd, BodyUnreachable, BodyLoad}),
     el \in ElemChoices(2), st \in {NoStart, 0, 1}}

\* a module the decoder can produce: indices in range, segments only with
\* the entity they initialise
WellFormed(M) ==
  /\ M.start # NoStart => M.start < Len(M.functions)
  /\ \A i \in DOMAIN M.elements : \A j \in DOMAIN M.elements[i].items :
        M.elements[i].items[j] < Len(M.functions)
  /\ M.elements # <<>> => M.table.kind # "none"
  /\ M.data_segments # <<>> => M.memory.kind # "none"

\* the raw values the host passes to WasmTable::set and WasmTable::grow
RawValues == {NULL, <<0, 1>>, <<1, 1>>}

\* the function externals the host can offer: a wasm-backed export of an
\* instance it holds in an Rc, as tests/spec_tests.rs externalizes them
ExportsOf(W) ==
  {ImportedWasm(W.instances[j].functions[k].runtime_sig, j, k - 1) :
     <<j, k>> \in {p \in InstIds \X (1..2) :
                     /\ W.instances[p[1]].holder = "host_rc"
                     /\ p[2] <= Len(W.instances[p[1]].functions)}}

HostTables(W) == {t \in TableIds : W.tables[t].live /\ W.tables[t].hostHeld}
HostMems(W) == {m \in MemIds : W.memories[m].live /\ W.memories[m].hostHeld}

\* the imports the host supplies for module M
ImportsFor(W, M) ==
  [table : IF M.table.kind = "import" THEN HostTables(W) \cup {0} ELSE {0},
   memory : IF M.memory.kind = "import" THEN HostMems(W) \cup {0} ELSE {0},
   func : IF \E i \in DOMAIN M.functions : M.functions[i].import
          THEN ExportsOf(W) \cup {NoExport} ELSE {NoExport}]

\* ----------------------------------------------------------------- actions
Init ==
  /\ registry = <<>>
  /\ refcounts = <<>>
  /\ zombie_instances = {}
  /\ next_id = 1
  /\ tables = [t \in TableIds |-> NoTable]
  /\ memories = [m \in MemIds |-> NoMemory]
  /\ instances = [i \in InstIds |-> NoInst]
  /\ cur = Idle
  /\ last = NoLast
  /\ panicked = FALSE
  /\ run = NoRun
  /\ hostmem = NoMem
  /\ compiled = NoCompile

\* the state after a library call that left the world W and returned
Step(W, newCur, newLast) ==
  IF W.panicked
  THEN /\ panicked' = TRUE
       /\ UNCHANGED <<registry, refcounts, zombie_instances, next_id, tables,
                      memories, instances, cur, last, run,
                      hostmem, compiled>>
  ELSE /\ UNCHANGED <<run, hostmem, compiled>>
       /\ registry' = W.registry
       /\ refcounts' = W.refcounts
       /\ zombie_instances' = W.zombie_instances
       /\ next_id' = W.next_id
       /\ tables' = W.tables
       /\ memories' = W.memories
       /\ instances' = W.instances
       /\ cur' = newCur
       /\ last' = newLast
       /\ panicked' = FALSE

HostMayAct == cur.phase = "idle" /\ ~panicked

HostOp == [NoLast EXCEPT !.op = "host"]

InstantiateReturned(id, res, startRes) ==
  [NoLast EXCEPT !.op = "instantiate", !.id = id, !.res = res, !.startRes = startRes]

\* the tables the host can reach: its own Rc or the pub table field of an
\* instance it holds
HostReaches(W, t) ==
  /\ W.tables[t].live
  /\ \/ W.tables[t].hostHeld
     \/ \E i \in InstIds : W.instances[i].holder \in {"host", "host_rc"}
                           /\ W.instances[i].table = t

\* Rc::new(RefCell::new(WasmTable::new(initial, maximum)))
HostTableNew(initial, maximum) ==
  /\ HostMayAct
  /\ FreeTables(World) # {}
  /\ LET t == CHOOSE x \in FreeTables(World) : \A y \in FreeTables(World) : x <= y
     IN Step([World EXCEPT !.tables[t] =
                [WasmTable_new(initial, maximum) EXCEPT !.hostHeld = TRUE]],
             Idle, HostOp)

HostTableSet(t, idx, v) ==
  /\ HostMayAct
  /\ HostReaches(World, t)
  /\ Step(WasmTable_set(World, t, idx, v)[1], Idle, HostOp)

HostTableGrow(t, delta, v) ==
  /\ HostMayAct
  /\ HostReaches(World, t)
  /\ Step(WasmTable_grow(World, t, delta, v)[1], Idle, HostOp)

\* the host drops its last Rc of the table
HostDropTable(t) ==
  /\ HostMayAct
  /\ tables[t].live /\ tables[t].hostHeld
  /\ LET W1 == [World EXCEPT !.tables[t].hostHeld = FALSE]
     IN Step(IF TableHeld(W1, t) THEN W1 ELSE DestroyTable(W1, t), Idle, HostOp)

HostMemoryNew ==
  /\ HostMayAct
  /\ FreeMems(World) # {}
  /\ LET m == CHOOSE x \in FreeMems(World) : \A y \in FreeMems(World) : x <= y
     IN Step([World EXCEPT !.memories[m] =
                [WasmMemory_new(1, 2) EXCEPT !.hostHeld = TRUE]], Idle, HostOp)

HostDropMemory(m) ==
  /\ HostMayAct
  /\ memories[m].live /\ memories[m].hostHeld
  /\ LET W1 == [World EXCEPT !.memories[m].hostHeld = FALSE]
     IN Step(IF MemoryHeld(W1, m) THEN W1 ELSE DestroyMemory(W1, m), Idle, HostOp)

\* let inst_rc = Rc::new(inst); Instance::register_external_instance(&inst_rc)
HostRegisterExternal(i) ==
  /\ HostMayAct
  /\ instances[i].holder = "host"
  /\ Step(register_instance([World EXCEPT !.instances[i].holder = "host_rc"], i, "ext"),
          Idle, HostOp)

HostDropInstance(i) ==
  /\ HostMayAct
  /\ instances[i].holder \in {"host", "host_rc"}
  /\ Step(DropInstance(World, i), Idle, HostOp)


\* Instance::instantiate, lines 305-439: allocate the id, resolve memory,
\* table and functions, collect and bounds-check the segments
InstLink(M, imp) ==
  /\ HostMayAct
  /\ next_id <= MaxInst
  /\ M.table.kind = "own" => FreeTables(World) # {}
  /\ M.memory.kind = "own" => FreeMems(World) # {}
  /\ LET id == next_id
         W1 == allocate_id(World)
         rm == ResolveMemory(W1, M, imp)
         rt == ResolveTable(rm[3], M, imp)
         rf == ResolveFunctions(M.functions, imp, <<>>)
         t == rt[2]
         m == rm[2]
         ce == IF M.elements = <<>> THEN <<Ok, <<>>>>
               ELSE IF t = 0 THEN <<Link(UNKNOWN_TABLE), <<>>>>
               ELSE CollectElements(M.elements, rt[3].tables[t], <<>>)
         cd == IF m = 0 THEN <<Ok, <<>>>>
               ELSE CollectData(M.data_segments, rt[3].memories[m], <<>>)
         err == CASE rm[1] # Ok -> rm[1]
                  [] rm[1] = Ok /\ rt[1] # Ok -> rt[1]
                  [] rm[1] = Ok /\ rt[1] = Ok /\ rf[1] # Ok -> rf[1]
                  [] rm[1] = Ok /\ rt[1] = Ok /\ rf[1] = Ok /\ ce[1] # Ok -> ce[1]
                  [] OTHER -> cd[1]
     IN IF err # Ok
        THEN \* the fresh table and memory die with the instance
             Step([W1 EXCEPT !.instances[id] = DroppedInst(FALSE)], Idle,
                  InstantiateReturned(id, err, Ok))
        ELSE Step([rt[3] EXCEPT !.instances[id] =
                     [holder |-> "building", trapped |-> FALSE, module |-> Loaded(M),
                      table |-> t, memory |-> m, functions |-> rf[2]]],
                  [phase |-> "linked", id |-> id, start |-> M.start, collected |-> ce[2],
                   pending |-> cd[2], snap |-> Snapshot(World)],
                  last)

\* lines 441-461: apply the element segments
InstApplyElements ==
  /\ ~panicked
  /\ cur.phase = "linked"
  /\ LET id == cur.id
         r == ApplyWrites(World, id, instances[id].table, Writes(cur.collected))
     IN IF r[2] # ""
        THEN Step(DropInstance(r[1], id), Idle,
                  InstantiateReturned(id, Link(ELEM_SEG_DNF), Ok))
        ELSE Step(r[1], [cur EXCEPT !.phase = "elements"], last)

\* lines 463-471: apply the data segments
InstApplyData ==
  /\ ~panicked
  /\ cur.phase = "elements"
  /\ LET id == cur.id
         m == instances[id].memory
         r == IF m = 0 THEN <<NoMemory, "">> ELSE ApplyData(memories[m], cur.pending)
     IN IF r[2] # ""
        THEN Step(DropInstance(World, id), Idle, InstantiateReturned(id, Trap(r[2]), Ok))
        ELSE Step(IF m = 0 THEN World ELSE [World EXCEPT !.memories[m] = r[1]],
                  [cur EXCEPT !.phase = "data"], last)

\* lines 473-491: fill the exports map, then register the weak handle
InstRegister ==
  /\ ~panicked
  /\ cur.phase = "data"
  /\ Step(register_instance(World, cur.id, "build"),
          [cur EXCEPT !.phase = "registered"], last)

\* faulty variant: a start trap is returned as it is
StartFailure_same(res) == res

\* lines 505-511: what instantiate returns for a failed start invocation
StartFailure(res) == IF res.kind = "Trap" THEN Uninstantiable(res.msg) ELSE res

\* lines 493-520: run the start function and return
InstStart ==
  /\ ~panicked
  /\ cur.phase = "registered"
  /\ LET id == cur.id
         succeed == [World EXCEPT !.instances[id].holder = "host"]
     IN IF cur.start = NoStart
        THEN Step(succeed, Idle, InstantiateReturned(id, Ok, Ok))
        ELSE LET f == instances[id].functions[cur.start + 1]
             IN IF n_params(f.runtime_sig) # 0 \/ has_result(f.runtime_sig)
                THEN Step(DropInstance(World, id), Idle,
                          InstantiateReturned(id, Validation(START_FUNC), Ok))
                ELSE LET r == call_function_idx(World, id, cur.start, FALSE, {}, {})
                     IN CASE r.panic -> Step(Panic(World), cur, last)
                          [] ~r.panic /\ r.res = Ok ->
                               Step(succeed, Idle, InstantiateReturned(id, Ok, Ok))
                          [] ~r.panic /\ r.res.kind = "Trap" ->
                               Step(add_zombie([World EXCEPT !.instances[id].trapped = TRUE], id),
                                    Idle,
                                    InstantiateReturned(id, StartFailure(r.res), r.res))
                          [] OTHER ->
                               Step(DropInstance(World, id), Idle,
                                    InstantiateReturned(id, StartFailure(r.res), r.res))

\* Instance::invoke on an instance the host holds
Invoke(i, idx) ==
  /\ HostMayAct
  /\ instances[i].holder \in {"host", "host_rc"}
  /\ idx < Len(instances[i].functions)
  /\ LET r == invoke(World, i, idx)
     IN Step(IF r.panic THEN Panic(World) ELSE World, Idle,
             [NoLast EXCEPT !.op = "invoke", !.id = i, !.func = idx, !.res = r.res,
                            !.entered = r.entered, !.calleeErr = r.calleeErr])

Usable(Ms) == {M \in Ms : WellFormed(M)}

Instantiate(Ms) ==
  \/ \E M \in Usable(Ms) : \E imp \in ImportsFor(World, M) : InstLink(M, imp)
  \/ InstApplyElements
  \/ InstApplyData
  \/ InstRegister
  \/ InstStart

Next ==
  \/ \E initial \in 0..MaxTableLen : HostTableNew(initial, MaxTableLen)
  \/ \E t \in TableIds, idx \in 0..MaxTableLen, v \in RawValues : HostTableSet(t, idx, v)
  \/ \E t \in TableIds, delta \in 0..2, v \in RawValues : HostTableGrow(t, delta, v)
  \/ \E t \in TableIds : HostDropTable(t)
  \/ \E i \in InstIds : HostRegisterExternal(i)
  \/ \E i \in InstIds : HostDropInstance(i)
  \/ Instantiate(Modules)

Spec == Init /\ [][Next]_vars

\* SpecLink: imported and own tables and memories, element and data segments
\* that fit or do not fit
ModulesLink ==
  {MkModule(tk, mk, <<Function(S0, FALSE, BodyEnd)>>, el, da, NoStart) :
     tk \in {"none", "own", "import"}, mk \in {"none", "own", "import"},
     el \in ElemChoices(1), da \in DataChoices}

NextLink ==
  \/ \E initial \in 1..MaxTableLen : HostTableNew(initial, MaxTableLen)
  \/ \E t \in TableIds, idx \in 0..1, v \in RawValues : HostTableSet(t, idx, v)
  \/ \E t \in TableIds : HostDropTable(t)
  \/ HostMemoryNew
  \/ \E m \in MemIds : HostDropMemory(m)
  \/ \E i \in InstIds : HostDropInstance(i)
  \/ Instantiate(ModulesLink)

SpecLink == Init /\ [][NextLink]_vars

\* SpecCall: call_indirect through own and shared tables
CallTypes == {0, 2}

CallVectors ==
  {<<Function(S0, FALSE, BodyCallIndirect(0, k)), Function(ty, FALSE, b)>> :
     k \in CallTypes, ty \in {S0, S1}, b \in {BodyEnd, BodyUnreachable, BodyLoad}}

ModulesCall ==
  {MkModule(tk, "none", fs, el, <<>>, NoStart) :
     tk \in {"own", "import"}, fs \in CallVectors,
     el \in {<<>>, <<Segment(0, <<1>>)>>}}

\* the raw values the host writes in SpecCall: null, a handle with low bits
\* 0, a handle of function 1 of instance 1
RawCallValues == {NULL, <<1, 0>>, <<1, 2>>}

NextCall ==
  \/ \E initial \in 1..MaxTableLen : HostTableNew(initial, MaxTableLen)
  \/ \E t \in TableIds, v \in RawCallValues : HostTableSet(t, 0, v)
  \/ \E i \in InstIds : HostRegisterExternal(i)
  \/ \E i \in InstIds : HostDropInstance(i)
  \/ \E i \in InstIds, idx \in 0..1 : Invoke(i, idx)
  \/ Instantiate(ModulesCall)

SpecCall == Init /\ [][NextCall]_vars

\* ---------------------------------------------------------------- claims
\* the registry's refcount for an id (an absent entry counts as zero)
RefCount(id) == IF id \in DOMAIN refcounts THEN refcounts[id] ELSE 0

\* the slots <<table, index>> of all live tables
Slots == {p \in TableIds \X (1..(MaxTableLen + 2)) :
            tables[p[1]].live /\ p[2] <= Len(tables[p[1]].elements)}

SlotValue(p) == tables[p[1]].elements[p[2]]

\* the non-null slots whose handle's owner id is id
SlotsOf(id) == {p \in Slots : SlotValue(p) # NULL /\ owner_id(SlotValue(p)) = id}

OwnerIds == 0..MaxInst

C2_OwnerKeptAlive ==
  cur.phase = "idle" =>
    \A id \in InstIds :
      (SlotsOf(id) # {} /\ instances[id].holder # "none") => get_instance(World, id)

\* C3: zombie invariant. Every id in the zombie holdover map has a
\* refcount greater than zero.
C3_ZombieHasRefs == \A id \in zombie_instances : has_refs(World, id)

\* C3 witness: a start-trapped instance is held as a zombie while a slot
\* still names it.
C3_Witness ==
  \E id \in zombie_instances : instances[id].holder = "zombie" /\ SlotsOf(id) # {}

\* C4: retention of a start-trapped instance. In the step in which the start
\* function traps, the instance is retained iff its refcount is greater than
\* zero at that moment; a retained instance stays retained across every step
\* that leaves its refcount above zero, is released by the step that brings
\* the refcount to zero, and once get_instance returns nothing for a trapped
\* instance it returns nothing ever after.
C4_Step ==
  \A id \in InstIds :
    /\ (~instances[id].trapped /\ instances'[id].trapped)
         => (get_instance(World, id)' <=> RefCount(id) > 0)
    /\ (instances[id].trapped /\ get_instance(World, id) /\ RefCount(id)' > 0)
         => get_instance(World, id)'
    /\ (instances[id].trapped /\ RefCount(id)' = 0) => ~get_instance(World, id)'
    /\ (instances[id].trapped /\ ~get_instance(World, id)) => ~get_instance(World, id)'

C4_TrapRetention == [][C4_Step]_vars

\* C4 witness: a start-trapped instance that was released: it is destroyed,
\* the registry finds nothing for its id and its refcount entry is zero.
C4_Witness ==
  \E id \in InstIds :
    /\ instances[id].trapped /\ instances[id].holder = "dropped"
    /\ id \in DOMAIN refcounts /\ refcounts[id] = 0
    /\ ~get_instance(World, id)

WrittenOwnSlots ==
  {w[1] + 1 : w \in {x \in Range(Writes(cur.collected)) :
      SlotValue(<<instances[cur.id].table, x[1] + 1>>) = <<cur.id, x[2] + 1>>}}

\* C6 as claimed: when the element segments have been applied and a slot
\* holds a handle of the new instance, its id is already in the registry.
C6_RegisteredBeforeElements ==
  (cur.phase = "elements" /\ WrittenOwnSlots # {}) => cur.id \in DOMAIN registry

\* C6 amended: the weak handle is registered after the element and data
\* segments are applied and before the start function runs. While the
\* segments are being collected and applied the id is not in the registry;
\* when the start function is about to run, and for every instance that
\* instantiate returned or that trapped in start, the id is in the registry.
C6_RegisteredBeforeStart ==
  /\ cur.phase \in {"linked", "elements", "data"} => cur.id \notin DOMAIN registry
  /\ cur.phase = "registered" => cur.id \in DOMAIN registry
  /\ \A id \in InstIds :
       (instances[id].holder \in {"host", "host_rc", "zombie"} \/ instances[id].trapped)
         => id \in DOMAIN registry

\* C6 witness: the start function is about to run, a slot written by the
\* element segments names the new instance, and its id is registered.
C6_Witness ==
  /\ cur.phase = "registered"
  /\ cur.start # NoStart
  /\ WrittenOwnSlots # {}
  /\ cur.id \in DOMAIN registry


\* the refcount an observer reads in a refcounts map
RefCountIn(rc, id) == IF id \in DOMAIN rc THEN rc[id] ELSE 0

\* C7: link-failure atomicity. Whenever instantiate returns the link error
\* 'elements segment does not fit' or 'data segment does not fit', every
\* table slot, every memory byte and every registry refcount is what it was
\* when instantiate was called.
C7_Step ==
  (last' # last /\ last'.op = "instantiate"
     /\ last'.res \in {Link(ELEM_SEG_DNF), Link(DATA_SEG_DNF)}) =>
    LET before == IF cur.phase = "idle" THEN Snapshot(World) ELSE cur.snap
    IN /\ tables' = before.tables
       /\ memories' = before.memories
       /\ \A id \in OwnerIds : RefCountIn(refcounts', id) = RefCountIn(before.refcounts, id)

C7_LinkFailureAtomic == [][C7_Step]_vars

\* C7 witness: instantiate has just returned 'data segment does not fit'
\* while a shared table with a non-null slot and a shared memory are live.
C7_Witness ==
  /\ last.op = "instantiate"
  /\ last.res = Link(DATA_SEG_DNF)
  /\ \E t \in TableIds : tables[t].live /\ tables[t].hostHeld
                         /\ \E id \in OwnerIds : SlotsOf(id) # {}
  /\ \E m \in MemIds : memories[m].live /\ memories[m].hostHeld

\* the last invoke ran a function whose body is a call_indirect on a slot
\* inside the instance's table
IndirectCallMade ==
  /\ last.op = "invoke"
  /\ instances[last.id].functions[last.func + 1].kind = "OwnedWasm"
  /\ instances[last.id].functions[last.func + 1].body.op = "call_indirect"
  /\ instances[last.id].table # 0
  /\ instances[last.id].functions[last.func + 1].body.elem
       < size(tables[instances[last.id].table])

\* the handle that call_indirect read, and the type index it named
CalledHandle ==
  WasmTable_get(tables[instances[last.id].table],
                instances[last.id].functions[last.func + 1].body.elem)[2]

CalledType ==
  instances[last.id].module.types[instances[last.id].functions[last.func + 1].body.type + 1]

\* C8: a call_indirect through a non-null handle whose owner differs from
\* the executing instance and is not found by the registry traps with
\* 'function has no implementation'.
C8_MissingOwnerNoImpl ==
  (/\ IndirectCallMade
   /\ CalledHandle # NULL
   /\ owner_id(CalledHandle) # last.id
   /\ ~get_instance(World, owner_id(CalledHandle)))
    => last.res = Trap(FUNC_NO_IMPL)

\* C9: when the callee of a cross-instance call_indirect fails, the caller's
\* invoke fails with exactly the callee's error kind and message.
C9_CalleeErrorUnchanged ==
  (last.op = "invoke" /\ last.calleeErr # Ok) => last.res = last.calleeErr

\* the function a handle names is a wasm function of an instance that the
\* call can reach: the executing instance or one the registry finds
CalleeReachable ==
  /\ CalledHandle # NULL
  /\ LowBits(CalledHandle) # 0
  /\ owner_id(CalledHandle) \in InstIds
  /\ \/ owner_id(CalledHandle) = last.id
     \/ get_instance(World, owner_id(CalledHandle))
  /\ LowBits(CalledHandle) <= Len(instances[owner_id(CalledHandle)].functions)
  /\ instances[owner_id(CalledHandle)].functions[LowBits(CalledHandle)].kind = "OwnedWasm"

\* the signature the callee was declared with
DeclaredSig ==
  instances[owner_id(CalledHandle)].module.functions[LowBits(CalledHandle)].ty

\* C10: whenever the function in the slot has a declared signature that
\* differs from types[type], call_indirect traps with 'indirect call type
\* mismatch' and the callee is not entered.
C10_TypeMismatchTraps ==
  (IndirectCallMade /\ CalleeReachable /\ DeclaredSig # CalledType) =>
    /\ last.res = Trap(INDIRECT_CALL_MISMATCH)
    /\ <<owner_id(CalledHandle), LowBits(CalledHandle) - 1>> \notin last.entered


\* the function count of the instance a handle names, while that instance
\* exists
OwnerFunctionCount(h) ==
  IF owner_id(h) \in InstIds /\ instances[owner_id(h)].holder \in AliveHolders
  THEN Len(instances[owner_id(h)].functions)
  ELSE MaxTableLen + 2

\* C11: table-slot validity. Between API calls every slot of a live table is
\* null or a handle whose owner id has been registered in the registry and
\* whose low 32 bits minus one is a function index of that owner.
C11_SlotsValid ==
  cur.phase = "idle" =>
    \A p \in Slots :
      \/ SlotValue(p) = NULL
      \/ /\ owner_id(SlotValue(p)) \in DOMAIN registry
         /\ LowBits(SlotValue(p)) >= 1
         /\ LowBits(SlotValue(p)) <= OwnerFunctionCount(SlotValue(p))



(***************************************************************************)
(* The interpreter, instruction by instruction.  A module's code is the    *)
(* array of the instructions its bytes decode to, in byte order, and pc    *)
(* is the position of the next one (1 is the first).  The bytes between    *)
(* two function bodies (the body size and the locals vector of the next    *)
(* function) are in the array as the instructions they decode to.  The     *)
(* functions modelled take no parameters and declare no locals.            *)
(***************************************************************************)
STACK_UNDERFLOW == "stack underflow"
MAX_CONTROL_DEPTH == 1000
MAX_CALL_DEPTH == 1000

\* one decoded instruction: n is its immediate (label depth, function
\* index, constant), hr whether a block type has a result
Instr(op, n, hr) == [op |-> op, n |-> n, hr |-> hr]
Nop == Instr("nop", 0, FALSE)
Unreachable == Instr("unreachable", 0, FALSE)
Block(hr) == Instr("block", 0, hr)
Loop == Instr("loop", 0, FALSE)
If(hr) == Instr("if", 0, hr)
End == Instr("end", 0, FALSE)
Br(n) == Instr("br", n, FALSE)
Return == Instr("return", 0, FALSE)
Call(n) == Instr("call", n, FALSE)
I32Const(n) == Instr("i32.const", n, FALSE)
Drop == Instr("drop", 0, FALSE)

\* RuntimeFunction::OwnedWasm and ::ImportedWasm of a module's function list
RunOwnedWasm(hr, pc_start) ==
  [kind |-> "OwnedWasm", has_result |-> hr, pc_start |-> pc_start,
   owner |-> 0, function_index |-> 0]
RunImportedWasm(hr, owner, function_index) ==
  [kind |-> "ImportedWasm", has_result |-> hr, pc_start |-> 0,
   owner |-> owner, function_index |-> function_index]

ControlFrame(stack_len, dest_pc, arity, hr) ==
  [stack_len |-> stack_len, dest_pc |-> dest_pc, arity |-> arity,
   has_result |-> hr]

\* Vec::truncate and usize::saturating_sub
Truncate(s, n) == IF n >= Len(s) THEN s ELSE SubSeq(s, 1, n)
SaturatingSub(a, b) == IF a > b THEN a - b ELSE 0

\* the position of the end that closes the block opened just before
\* position i, as the validator's control stack finds it
RECURSIVE MatchingEnd(_, _, _)
MatchingEnd(bytes, i, depth) ==
  IF i > Len(bytes) THEN i
  ELSE IF bytes[i].op \in {"block", "loop", "if"}
       THEN MatchingEnd(bytes, i + 1, depth + 1)
       ELSE IF bytes[i].op = "end"
            THEN IF depth = 0 THEN i ELSE MatchingEnd(bytes, i + 1, depth - 1)
            ELSE MatchingEnd(bytes, i + 1, depth)

\* side_table.lookup(pc) for the block, loop or if whose opcode is at
\* position pc - 1: an if without else has else_pc at its end opcode
lookup(bytes, pc) ==
  LET e == MatchingEnd(bytes, pc, 0) IN
  [body_pc |-> pc, end_pc |-> e + 1,
   else_pc |-> IF bytes[pc - 1].op = "if" THEN e ELSE e + 1,
   params_len |-> 0, has_result |-> bytes[pc - 1].hr]

\* one activation of interpret: the vectors one call of it works on
Activation(inst, pc, stack, control, func_bases, ctrl_bases) ==
  [inst |-> inst, pc |-> pc, stack |-> stack, control |-> control,
   func_bases |-> func_bases, ctrl_bases |-> ctrl_bases]

\* faulty variant: the result values are not moved down to the entry height
branch_no_copy(A, depth) ==
  LET len == Len(A.control) IN
  IF depth >= len THEN [act |-> A, empty |-> TRUE]
  ELSE
    LET keep == len - depth
        target == A.control[keep]
        control2 == SubSeq(A.control, 1, keep - 1)
        stack2 == Truncate(A.stack, target.stack_len + target.arity)
    IN [act |-> [A EXCEPT !.control = control2, !.stack = stack2,
                          !.pc = target.dest_pc],
        empty |-> control2 = <<>>]

\* Instance::branch: the activation afterwards and the value returned
branch(A, depth) ==
  LET len == Len(A.control) IN
  IF depth >= len THEN [act |-> A, empty |-> TRUE]
  ELSE
    LET keep == len - depth
        target == A.control[keep]
        control2 == SubSeq(A.control, 1, keep - 1)
        stack_len == Len(A.stack)
        src_start == SaturatingSub(stack_len, target.arity)
        copied == IF src_start > target.stack_len
                  THEN SubSeq(A.stack, 1, target.stack_len)
                       \o SubSeq(A.stack, src_start + 1, stack_len)
                  ELSE A.stack
        stack2 == IF target.arity > 0
                  THEN Truncate(copied, target.stack_len + target.arity)
                  ELSE Truncate(A.stack, target.stack_len)
    IN [act |-> [A EXCEPT !.control = control2, !.stack = stack2,
                          !.pc = target.dest_pc],
        empty |-> control2 = <<>>]

\* Instance::setup_wasm_function_call for the function f: the activation
\* afterwards, or the trap
setup_wasm_function_call(A, f, return_dest) ==
  LET locals_start == Len(A.stack)
      control2 == Append(A.control,
                    ControlFrame(locals_start, return_dest,
                                 IF f.has_result THEN 1 ELSE 0, f.has_result))
  IN IF Len(control2) > MAX_CONTROL_DEPTH
     THEN [err |-> Trap(STACK_EXHAUSTED), act |-> [A EXCEPT !.control = control2]]
     ELSE [err |-> Ok,
           act |-> [A EXCEPT !.control = control2,
                             !.func_bases = Append(@, locals_start),
                             !.ctrl_bases = Append(@, Len(control2) - 1),
                             !.pc = f.pc_start]]

\* Instance::call_function_idx up to the point where interpret starts: the
\* depth check, then the frame of an own function or the owner's
\* call_function_idx on the same vectors
RECURSIVE RunCallFunctionIdx(_, _, _, _)
RunCallFunctionIdx(P, inst, idx, A) ==
  IF Len(A.func_bases) >= MAX_CALL_DEPTH
  THEN [err |-> Trap(STACK_EXHAUSTED), act |-> A]
  ELSE LET fi == P.insts[inst].functions[idx + 1] IN
       IF fi.kind = "OwnedWasm"
       THEN setup_wasm_function_call([A EXCEPT !.inst = inst], fi, 0)
       ELSE IF P.insts[fi.owner].alive
            THEN RunCallFunctionIdx(P, fi.owner, fi.function_index, A)
            ELSE [err |-> Trap(FUNC_NO_IMPL), act |-> A]



\* what one instruction does to the activation that runs it
Continue(A) == [kind |-> "continue", act |-> A, callee |-> A, err |-> Ok]
ReturnOk(A) == [kind |-> "return", act |-> A, callee |-> A, err |-> Ok]
Fail(A, e) == [kind |-> "err", act |-> A, callee |-> A, err |-> e]
Nested(A, N) == [kind |-> "nested", act |-> A, callee |-> N, err |-> Ok]
Unwrap(A) == [kind |-> "panic", act |-> A, callee |-> A, err |-> Ok]

\* Vec::pop
Pop(s) == IF s = <<>> THEN s ELSE SubSeq(s, 1, Len(s) - 1)

\* the vectors a nested call starts with
FreshActivation(inst) == Activation(inst, 0, <<>>, <<>>, <<>>, <<>>)

\* 0x02 block, 0x03 loop, 0x04 if
OpBlock(bytes, B) ==
  LET t == lookup(bytes, B.pc) IN
  Continue([B EXCEPT !.pc = t.body_pc,
                     !.control = Append(@,
                        ControlFrame(Len(B.stack) - t.params_len, t.end_pc,
                                     IF t.has_result THEN 1 ELSE 0,
                                     t.has_result))])
OpLoop(bytes, B) ==
  LET t == lookup(bytes, B.pc) IN
  Continue([B EXCEPT !.pc = t.body_pc,
                     !.control = Append(@,
                        ControlFrame(Len(B.stack) - t.params_len, B.pc - 1,
                                     t.params_len, t.has_result))])
OpIf(bytes, B) ==
  LET t == lookup(bytes, B.pc)
      cond == B.stack[Len(B.stack)]
      stack2 == Pop(B.stack)
  IN Continue([B EXCEPT !.stack = stack2,
                        !.pc = IF cond = 0 THEN t.else_pc ELSE t.body_pc,
                        !.control = Append(@,
                           ControlFrame(Len(stack2) - t.params_len, t.end_pc,
                                        IF t.has_result THEN 1 ELSE 0,
                                        t.has_result))])

\* 0x0b end
OpEnd(B) ==
  IF /\ B.ctrl_bases # <<>>
     /\ B.ctrl_bases[Len(B.ctrl_bases)] = SaturatingSub(Len(B.control), 1)
  THEN LET r == branch(B, 0)
           A2 == [r.act EXCEPT !.ctrl_bases = Pop(@), !.func_bases = Pop(@)]
       IN IF r.empty THEN ReturnOk(A2) ELSE Continue(A2)
  ELSE IF B.control = <<>> THEN ReturnOk(B)
       ELSE LET target == B.control[Len(B.control)]
                stack2 == IF target.has_result
                          THEN Append(Truncate(B.stack, target.stack_len),
                                      B.stack[Len(B.stack)])
                          ELSE Truncate(B.stack, target.stack_len)
            IN Continue([B EXCEPT !.control = Pop(@), !.stack = stack2])

\* 0x0c br
OpBr(B, depth) ==
  LET r == branch(B, depth) IN
  IF r.empty THEN ReturnOk(r.act) ELSE Continue(r.act)

\* 0x0f return
OpReturn(B) ==
  IF B.control = <<>> THEN ReturnOk(B)
  ELSE IF B.ctrl_bases = <<>> THEN Unwrap(B)
  ELSE LET base_idx == B.ctrl_bases[Len(B.ctrl_bases)]
           depth == SaturatingSub(Len(B.control) - 1, base_idx)
           r == branch(B, depth)
           A2 == [r.act EXCEPT !.ctrl_bases = Pop(@), !.func_bases = Pop(@)]
       IN IF r.empty THEN ReturnOk(A2) ELSE Continue(A2)

\* 0x10 call
OpCall(P, B, fi) ==
  LET f == P.insts[B.inst].functions[fi + 1] IN
  IF f.kind = "OwnedWasm"
  THEN LET r == setup_wasm_function_call(B, f, B.pc) IN
       IF r.err = Ok THEN Continue(r.act) ELSE Fail(r.act, r.err)
  ELSE IF P.insts[f.owner].alive
       THEN LET r == RunCallFunctionIdx(P, f.owner, f.function_index,
                                        FreshActivation(f.owner))
            IN IF r.err = Ok THEN Nested(B, r.act) ELSE Fail(B, r.err)
       ELSE Fail(B, Trap(FUNC_NO_IMPL))

\* one turn of the loop of Instance::interpret on the activation A
interpret_op(P, A) ==
  LET bytes == P.insts[A.inst].bytes IN
  IF A.pc > Len(bytes) THEN Fail(A, Malformed(UNEXPECTED_END))
  ELSE
    LET i == bytes[A.pc]
        B == [A EXCEPT !.pc = A.pc + 1]
    IN CASE i.op = "unreachable" -> Fail(B, Trap(UNREACHABLE))
         [] i.op = "nop" -> Continue(B)
         [] i.op = "block" -> OpBlock(bytes, B)
         [] i.op = "loop" -> OpLoop(bytes, B)
         [] i.op = "if" -> OpIf(bytes, B)
         [] i.op = "end" -> OpEnd(B)
         [] i.op = "br" -> OpBr(B, i.n)
         [] i.op = "return" -> OpReturn(B)
         [] i.op = "call" -> OpCall(P, B, i.n)
         [] i.op = "i32.const" -> Continue([B EXCEPT !.stack = Append(@, i.n)])
         [] i.op = "drop" ->
              IF B.stack = <<>> THEN Fail(B, Trap(STACK_UNDERFLOW))
              ELSE Continue([B EXCEPT !.stack = Pop(@)])

\* the run after the innermost activation has executed one instruction: a
\* nested interpret that returns hands its stack to the caller, the
\* outermost one makes invoke return the whole stack, and an error leaves
\* through every caller's question mark
RunAfter(R, P) ==
  LET n == Len(R.acts)
      r == interpret_op(P, R.acts[n])
  IN CASE r.kind = "continue" -> [R EXCEPT !.acts[n] = r.act]
       [] r.kind = "nested" ->
            [R EXCEPT !.acts = Append([R.acts EXCEPT ![n] = r.act], r.callee)]
       [] r.kind = "return" /\ n > 1 ->
            [R EXCEPT !.acts = [k \in 1..(n - 1) |->
                                  IF k = n - 1
                                  THEN [R.acts[k] EXCEPT
                                          !.stack = @ \o r.act.stack]
                                  ELSE R.acts[k]]]
       [] r.kind = "return" /\ n = 1 ->
            [R EXCEPT !.status = "done", !.acts = <<r.act>>,
                      !.result = r.act.stack]
       [] r.kind = "err" ->
            [R EXCEPT !.status = "done", !.acts[n] = r.act, !.error = r.err]
       [] r.kind = "panic" -> [R EXCEPT !.status = "panicked"]

\* Instance::invoke of the entry function of the program P, up to the
\* point where interpret starts
RunInvokeStart(p, P) ==
  LET f == P.insts[P.entry.inst].functions[P.entry.func + 1]
      r == IF f.kind = "OwnedWasm"
           THEN setup_wasm_function_call(FreshActivation(P.entry.inst), f, 0)
           ELSE IF P.insts[f.owner].alive
                THEN RunCallFunctionIdx(P, f.owner, f.function_index,
                                        FreshActivation(f.owner))
                ELSE [err |-> Trap(FUNC_NO_IMPL),
                      act |-> FreshActivation(P.entry.inst)]
  IN [status |-> IF r.err = Ok THEN "running" ELSE "done", program |-> p,
      acts |-> <<r.act>>, result |-> <<>>, error |-> r.err]



\* an instantiated module of a program and a program: its instances and
\* the exported function the host invokes
RunModule(alive, bytes, functions) ==
  [alive |-> alive, bytes |-> bytes, functions |-> functions]
Program(insts, inst, func) ==
  [insts |-> insts, entry |-> [inst |-> inst, func |-> func]]

\* f: call f
ProgRecursion ==
  Program(<<RunModule(TRUE, <<Call(0), End>>, <<RunOwnedWasm(FALSE, 1)>>)>>,
          1, 0)
\* f: block block call f end end
ProgBlockRecursion ==
  Program(<<RunModule(TRUE, <<Block(FALSE), Block(FALSE), Call(0), End, End,
                              End>>,
                      <<RunOwnedWasm(FALSE, 1)>>)>>, 1, 0)
\* f: loop call g br 0 end      g: br 0
ProgLoopBr ==
  Program(<<RunModule(TRUE, <<Loop, Call(1), Br(0), End, End, Br(0), End>>,
                      <<RunOwnedWasm(FALSE, 1), RunOwnedWasm(FALSE, 6)>>)>>,
          1, 0)
\* instance 1 has g: call g; instance 2 imports g and has f: call g
ProgImport ==
  Program(<<RunModule(TRUE, <<Call(0), End>>, <<RunOwnedWasm(FALSE, 1)>>),
            RunModule(TRUE, <<Call(0), End>>,
                      <<RunImportedWasm(FALSE, 1, 0),
                        RunOwnedWasm(FALSE, 1)>>)>>, 2, 1)
\* the same with an import whose owner is gone
ProgDeadImport ==
  Program(<<RunModule(FALSE, <<Call(0), End>>, <<RunOwnedWasm(FALSE, 1)>>),
            RunModule(TRUE, <<Call(0), End>>,
                      <<RunImportedWasm(FALSE, 1, 0),
                        RunOwnedWasm(FALSE, 1)>>)>>, 2, 1)
\* instance 1 has g (result i32): i32.const 4; instance 2 imports g and
\* has f (result i32): call g
ProgImportResult ==
  Program(<<RunModule(TRUE, <<I32Const(4), End>>, <<RunOwnedWasm(TRUE, 1)>>),
            RunModule(TRUE, <<Call(0), End>>,
                      <<RunImportedWasm(TRUE, 1, 0),
                        RunOwnedWasm(TRUE, 1)>>)>>, 2, 1)
\* f (result i32): i32.const 3
ProgEnd ==
  Program(<<RunModule(TRUE, <<I32Const(3), End>>, <<RunOwnedWasm(TRUE, 1)>>)>>,
          1, 0)
\* f (result i32): i32.const 1 i32.const 2 return
ProgReturn ==
  Program(<<RunModule(TRUE, <<I32Const(1), I32Const(2), Return, End>>,
                      <<RunOwnedWasm(TRUE, 1)>>)>>, 1, 0)
\* f: i32.const 1 return
ProgReturnNone ==
  Program(<<RunModule(TRUE, <<I32Const(1), Return, End>>,
                      <<RunOwnedWasm(FALSE, 1)>>)>>, 1, 0)
\* f (result i32): i32.const 1 block i32.const 5 i32.const 6 br 1 end
ProgBrOuter ==
  Program(<<RunModule(TRUE, <<I32Const(1), Block(FALSE), I32Const(5),
                              I32Const(6), Br(1), End, End>>,
                      <<RunOwnedWasm(TRUE, 1)>>)>>, 1, 0)
\* f (result i32): call g       g (result i32): i32.const 4 i32.const 9 return
ProgCallReturn ==
  Program(<<RunModule(TRUE, <<Call(1), End, I32Const(4), I32Const(9), Return,
                              End>>,
                      <<RunOwnedWasm(TRUE, 1), RunOwnedWasm(TRUE, 3)>>)>>,
          1, 0)
\* f: i32.const 1 if nop end i32.const 0 if nop end
ProgIf ==
  Program(<<RunModule(TRUE, <<I32Const(1), If(FALSE), Nop, End, I32Const(0),
                              If(FALSE), Nop, End, End>>,
                      <<RunOwnedWasm(FALSE, 1)>>)>>, 1, 0)
\* f: unreachable
ProgUnreachable ==
  Program(<<RunModule(TRUE, <<Unreachable, End>>,
                      <<RunOwnedWasm(FALSE, 1)>>)>>, 1, 0)
\* f (result i32): call g i32.const 7    h: return nop ... nop    g: br 0
\* The body of h is 65 bytes long, so the byte after the end of f is 0x41,
\* the opcode of i32.const, and the empty locals vector 0x00 that follows
\* is its immediate: position 4 is what these two bytes decode to.
ProgStaleEnd ==
  Program(<<RunModule(TRUE, <<Call(2), I32Const(7), End, I32Const(0), Return,
                              Nop, End, Br(0), End>>,
                      <<RunOwnedWasm(TRUE, 1), RunOwnedWasm(FALSE, 5),
                        RunOwnedWasm(FALSE, 8)>>)>>, 1, 0)
\* g: br 0      f (result i32): call g i32.const 7, the last bytes of the
\* module
ProgStaleLast ==
  Program(<<RunModule(TRUE, <<Br(0), End, Call(0), I32Const(7), End>>,
                      <<RunOwnedWasm(FALSE, 1), RunOwnedWasm(TRUE, 3)>>)>>,
          1, 1)

\* g: br 0      f (result i32): i32.const 7 call g, the last bytes of the
\* module
ProgStaleBase ==
  Program(<<RunModule(TRUE, <<Br(0), End, I32Const(7), Call(0), End>>,
                      <<RunOwnedWasm(FALSE, 1), RunOwnedWasm(TRUE, 3)>>)>>,
          1, 1)

RunPrograms ==
  <<ProgRecursion, ProgBlockRecursion, ProgLoopBr, ProgImport, ProgDeadImport,
    ProgImportResult, ProgEnd, ProgReturn, ProgReturnNone, ProgBrOuter,
    ProgCallReturn, ProgIf, ProgUnreachable, ProgStaleEnd, ProgStaleLast,
    ProgStaleBase>>

\* a run is followed while no function-base stack is longer than this
FrameBound == 1001

\* the host calls Instance::invoke on a program's entry function
RunInvoke ==
  /\ run.status \in {"none", "done"}
  /\ ~panicked
  /\ \E p \in DOMAIN RunPrograms : run' = RunInvokeStart(p, RunPrograms[p])
  /\ UNCHANGED <<registry, refcounts, zombie_instances, next_id, tables,
                 memories, instances, cur, last, panicked, hostmem,
                 compiled>>

\* the innermost interpret executes one instruction
RunStep ==
  /\ run.status = "running"
  /\ \A k \in DOMAIN run.acts : Len(run.acts[k].func_bases) <= FrameBound
  /\ run' = RunAfter(run, RunPrograms[run.program])
  /\ UNCHANGED <<registry, refcounts, zombie_instances, next_id, tables,
                 memories, instances, cur, last, panicked, hostmem,
                 compiled>>

NextRun == RunInvoke \/ RunStep

SpecRun == Init /\ [][NextRun]_vars

\* the entry function of the program being run
RunEntry ==
  LET P == RunPrograms[run.program] IN
  P.insts[P.entry.inst].functions[P.entry.func + 1]



\* the frames on the function-base stacks of the activations k..
RECURSIVE ActiveFrames(_)
ActiveFrames(k) ==
  IF k > Len(run.acts) THEN 0
  ELSE Len(run.acts[k].func_bases) + ActiveFrames(k + 1)

\* C12: call-depth cap. While an invoke is being interpreted, the
\* function-base stack of an activation never holds more than 1000 frames.
C12_CallDepthCap ==
  run.status = "running" =>
    \A k \in DOMAIN run.acts : Len(run.acts[k].func_bases) <= MAX_CALL_DEPTH

\* C13: control-depth cap. While an invoke is being interpreted, the
\* control-frame stack of an activation never holds more than 1000 frames.
C13_ControlDepthCap ==
  run.status = "running" =>
    \A k \in DOMAIN run.acts : Len(run.acts[k].control) <= MAX_CONTROL_DEPTH

\* C14: the cap is checked per activation only. While an invoke is being
\* interpreted, the call depth added up over its nested activations never
\* exceeds 1000.
C14_CombinedDepthCap ==
  run.status = "running" => ActiveFrames(1) <= MAX_CALL_DEPTH

\* C15: result arity of invoke. An invoke that returns Ok returns exactly
\* one value when the invoked function's signature has a result and none
\* otherwise.
C15_ResultArity ==
  (run.status = "done" /\ run.error = Ok) =>
    Len(run.result) = IF RunEntry.has_result THEN 1 ELSE 0



(***************************************************************************)
(* WasmMemory as the host and the memory instructions use it.  A u32 or    *)
(* usize quantity too wide for one integer is kept as a page number and a  *)
(* byte offset within the page.                                            *)
(***************************************************************************)
MemGrowFailed == -1     \* u32::MAX

\* Vec::resize(len, 0) on the bytes that are not zero
Resize(data, len) == [a \in {x \in DOMAIN data : x < len} |-> data[a]]

\* faulty variant: the maximum is not looked at
WasmMemory_grow_unchecked(mem, delta) ==
  <<[mem EXCEPT !.current = mem.current + delta], mem.current>>

\* WasmMemory::grow: <<memory, value returned>>
WasmMemory_grow(mem, delta) ==
  IF delta = 0 THEN <<mem, mem.current>>
  ELSE IF delta > SaturatingSub(mem.maximum, mem.current)
       THEN <<mem, MemGrowFailed>>
       ELSE LET old == mem.current
                current2 == mem.current + delta
            IN <<[mem EXCEPT !.current = current2,
                             !.data = Resize(mem.data, current2 * PAGE_SIZE)],
                 old>>

Wide(page, off) == [page |-> page, off |-> off]
WideOf(n) == Wide(n \div PAGE_SIZE, n % PAGE_SIZE)
Flat(a) == a.page * PAGE_SIZE + a.off
WideAdd(a, b) ==
  Wide(a.page + b.page + (a.off + b.off) \div PAGE_SIZE,
       (a.off + b.off) % PAGE_SIZE)
WideLeq(a, b) == a.page < b.page \/ (a.page = b.page /\ a.off <= b.off)
U32_MAX == Wide(PAGE_SIZE - 1, PAGE_SIZE - 1)

\* the widths of usize the library is built for
UsizeBits == {32, 64}
NoneUsize == Wide(-1, -1)
Overflows(a, bits) == bits = 32 /\ a.page >= PAGE_SIZE

\* usize::checked_add and usize::saturating_add
checked_add(a, b, bits) ==
  IF Overflows(WideAdd(a, b), bits) THEN NoneUsize ELSE WideAdd(a, b)
saturating_add(a, b, bits) ==
  IF Overflows(WideAdd(a, b), bits) THEN U32_MAX ELSE WideAdd(a, b)

\* self.data.len()
WideDataLen(mem) == Wide(mem.current, 0)

\* faulty variant: only the first byte of the access is checked
InBounds_first(mem, ptr, offset, width, bits) ==
  LET addr == checked_add(ptr, offset, bits) IN
  IF addr = NoneUsize THEN FALSE
  ELSE WideLeq(saturating_add(addr, WideOf(1), bits), WideDataLen(mem))

\* the bounds check of impl_unsigned!: the access is allowed
InBounds(mem, ptr, offset, width, bits) ==
  LET addr == checked_add(ptr, offset, bits) IN
  IF addr = NoneUsize THEN FALSE
  ELSE WideLeq(saturating_add(addr, WideOf(width), bits), WideDataLen(mem))

\* load_u8 .. load_u64: <<the bytes read, "" or the error>>
load_unsigned(mem, ptr, offset, width, bits) ==
  IF ~InBounds(mem, ptr, offset, width, bits) THEN <<<<>>, OOB_MEMORY_ACCESS>>
  ELSE LET addr == Flat(WideAdd(ptr, offset))
       IN <<[k \in 1..width |-> ByteAt(mem, addr + k - 1)], "">>

\* store_u8 .. store_u64 of the bytes v: <<memory, "" or the error>>
store_unsigned(mem, ptr, offset, width, v, bits) ==
  IF ~InBounds(mem, ptr, offset, width, bits) THEN <<mem, OOB_MEMORY_ACCESS>>
  ELSE LET addr == Flat(WideAdd(ptr, offset))
           written == {addr + k - 1 : k \in 1..width}
           val(a) == IF a \in written THEN v[a - addr + 1] ELSE mem.data[a]
           keep == {a \in DOMAIN mem.data \cup written : val(a) # 0}
       IN <<[mem EXCEPT !.data = [a \in keep |-> val(a)]], "">>



\* the sizes, addresses and values the host and the code under test use
MemPagesBound == 3
MemDataBound == 1
MemInitials == 0..2
MemMaximums == {1, 2, MAX_PAGES + 1}
MemDeltas == {0, 1, 2, MAX_PAGES + 1}
MemPtrs ==
  {Wide(0, 0), Wide(0, PAGE_SIZE - 4), Wide(1, 0), U32_MAX}
MemOffsets == {Wide(0, 0), Wide(0, 1), U32_MAX}
MemWidths == {1, 2, 4, 8}
MemValues(width) == {[k \in 1..width |-> k]}

MemOp(name, delta, ptr, offset, width, ret, err) ==
  [name |-> name, delta |-> delta, ptr |-> ptr, offset |-> offset,
   width |-> width, ret |-> ret, err |-> err]

\* "" or the trap that map_err(Error::trap) makes of a memory error
MemErr(msg) == IF msg = "" THEN Ok ELSE Trap(msg)

\* WasmMemory::new(initial, maximum)
MemNew ==
  /\ \E initial \in MemInitials, maximum \in MemMaximums :
       hostmem' = [m |-> WasmMemory_new(initial, maximum), pre |-> NoMemory,
                   op |-> MemOp("new", 0, Wide(0, 0), Wide(0, 0), 0, 0, Ok)]
  /\ UNCHANGED <<registry, refcounts, zombie_instances, next_id, tables,
                 memories, instances, cur, last, panicked, run,
                 compiled>>

\* WasmMemory::grow(delta), as memory.grow calls it
MemGrow ==
  /\ hostmem.m.live
  /\ \E delta \in MemDeltas :
       /\ delta > MAX_PAGES \/ hostmem.m.current + delta <= MemPagesBound
       /\ LET r == WasmMemory_grow(hostmem.m, delta)
          IN hostmem' = [m |-> r[1], pre |-> hostmem.m,
                         op |-> MemOp("grow", delta, Wide(0, 0), Wide(0, 0),
                                      0, r[2], Ok)]
  /\ UNCHANGED <<registry, refcounts, zombie_instances, next_id, tables,
                 memories, instances, cur, last, panicked, run,
                 compiled>>

\* the load! macro on a load of the given width
MemLoad ==
  /\ hostmem.m.live
  /\ \E ptr \in MemPtrs, offset \in MemOffsets, width \in MemWidths,
        bits \in UsizeBits :
       LET r == load_unsigned(hostmem.m, ptr, offset, width, bits)
       IN hostmem' = [m |-> hostmem.m, pre |-> hostmem.m,
                      op |-> MemOp("load", 0, ptr, offset, width, r[1],
                                   MemErr(r[2]))]
  /\ UNCHANGED <<registry, refcounts, zombie_instances, next_id, tables,
                 memories, instances, cur, last, panicked, run,
                 compiled>>

\* the store! macro on a store of the given width
MemStore ==
  /\ hostmem.m.live
  /\ Cardinality(DOMAIN hostmem.m.data) <= MemDataBound
  /\ \E ptr \in MemPtrs, offset \in MemOffsets, width \in MemWidths,
        bits \in UsizeBits :
       \E v \in MemValues(width) :
         LET r == store_unsigned(hostmem.m, ptr, offset, width, v, bits)
         IN hostmem' = [m |-> r[1], pre |-> hostmem.m,
                        op |-> MemOp("store", 0, ptr, offset, width, v,
                                     MemErr(r[2]))]
  /\ UNCHANGED <<registry, refcounts, zombie_instances, next_id, tables,
                 memories, instances, cur, last, panicked, run,
                 compiled>>

NextMem == MemNew \/ MemGrow \/ MemLoad \/ MemStore

SpecMem == Init /\ [][NextMem]_vars



\* the addresses at which two memories can differ or hold a byte
MemProbes(a, b) ==
  DOMAIN a.data \cup DOMAIN b.data \cup {0, DataLen(a), DataLen(b)}

\* C16: frame of WasmMemory::grow. grow(0) returns the current page count
\* and changes nothing; a grow beyond the maximum returns u32::MAX and
\* changes nothing; any other grow returns the previous page count, raises
\* the count by delta, keeps every old byte and leaves every new byte zero.
C16_GrowFrame ==
  hostmem.op.name = "grow" =>
    LET pre == hostmem.pre
        m == hostmem.m
        delta == hostmem.op.delta
        ret == hostmem.op.ret
    IN /\ delta = 0 => ret = pre.current /\ m = pre
       /\ (delta > 0 /\ pre.current + delta > pre.maximum) =>
            ret = MemGrowFailed /\ m = pre
       /\ (delta > 0 /\ pre.current + delta <= pre.maximum) =>
            /\ ret = pre.current
            /\ m.current = pre.current + delta
            /\ m.maximum = pre.maximum
            /\ \A a \in MemProbes(pre, m) :
                 /\ a < DataLen(pre) => ByteAt(m, a) = ByteAt(pre, a)
                 /\ a >= DataLen(pre) => ByteAt(m, a) = 0

\* a memory that holds a nonzero byte has grown by at least one page
C16_Witness ==
  /\ hostmem.op.name = "grow"
  /\ hostmem.op.delta > 0
  /\ hostmem.op.ret = hostmem.pre.current
  /\ hostmem.m.current > hostmem.pre.current
  /\ hostmem.pre.data # <<>>

\* C17: bounds of typed loads and stores. An access of width w at address
\* operand p with static offset o succeeds exactly when p + o + w, computed
\* without wrapping at 32 bits, is at most the length of the buffer;
\* otherwise it fails with the trap 'out of bounds memory access', and a
\* failed store leaves the memory as it was.
C17_AccessBounds ==
  hostmem.op.name \in {"load", "store"} =>
    LET op == hostmem.op
        end == WideAdd(WideAdd(op.ptr, op.offset), WideOf(op.width))
        fits == WideLeq(end, WideDataLen(hostmem.pre))
    IN /\ (op.err = Ok) <=> fits
       /\ op.err # Ok =>
            op.err = Trap(OOB_MEMORY_ACCESS) /\ hostmem.m = hostmem.pre

\* a store whose address wraps into the buffer at 32 bits has failed on a
\* memory that holds a nonzero byte
C17_Witness ==
  /\ hostmem.op.name = "store"
  /\ hostmem.op.ptr = U32_MAX
  /\ hostmem.op.offset = Wide(0, 1)
  /\ hostmem.op.err = Trap(OOB_MEMORY_ACCESS)
  /\ hostmem.pre.current >= 1
  /\ hostmem.pre.data # <<>>



\* C18: frame of WasmTable::grow. In every step in which the host grows a
\* table by delta with the value v: when delta is 0 the current size is
\* returned and nothing changes, reference counts included; when the new
\* size would exceed the maximum, u32::MAX is returned and nothing changes;
\* otherwise the previous size is returned, the old slots are kept, the
\* delta new slots hold v, and when v is not null the reference count of
\* v's owner rises by exactly delta while every other count stays.
C18_Step ==
  \A t \in TableIds, delta \in 0..2, v \in RawValues :
    HostTableGrow(t, delta, v) =>
      LET old == size(tables[t])
          ret == WasmTable_grow(World, t, delta, v)[2]
          unchanged == tables' = tables /\ refcounts' = refcounts
      IN /\ delta = 0 => ret = old /\ unchanged
         /\ (delta > 0 /\ old + delta > tables[t].maximum) =>
              ret = GrowFailed /\ unchanged
         /\ (delta > 0 /\ old + delta <= tables[t].maximum) =>
              /\ ret = old
              /\ size(tables'[t]) = old + delta
              /\ Len(tables'[t].elements) = old + delta
              /\ \A k \in 1..old : tables'[t].elements[k] = tables[t].elements[k]
              /\ \A k \in (old + 1)..(old + delta) : tables'[t].elements[k] = v
              /\ \A id \in DOMAIN refcounts' :
                   RefCount(id)' =
                     RefCount(id) + IF v # NULL /\ id = owner_id(v)
                                    THEN delta ELSE 0
              /\ DOMAIN refcounts \subseteq DOMAIN refcounts'

C18_GrowFrame == [][C18_Step]_vars

\* a table at its maximum whose two slots hold one non-null handle and whose
\* owner is counted at least twice: a grow by two has happened
C18_Witness ==
  \E t \in TableIds :
    /\ tables[t].live
    /\ size(tables[t]) = MaxTableLen
    /\ tables[t].elements[1] # NULL
    /\ \A k \in 1..MaxTableLen : tables[t].elements[k] = tables[t].elements[1]
    /\ RefCount(owner_id(tables[t].elements[1])) >= MaxTableLen



\* SpecImport: function imports of every type of the catalogue against
\* exports of every type, and table imports against tables of several
\* limits
ModulesImport ==
  {MkModule(tk, "none", fs, <<>>, <<>>, NoStart) :
     tk \in {"none", "import"}, fs \in FuncVectors({S0, S1, S2, S3}, {BodyEnd})}

NextImport ==
  \/ \E initial \in 0..MaxTableLen, maximum \in {MaxTableLen, MaxTableLen + 1} :
       HostTableNew(initial, maximum)
  \/ \E t \in TableIds : HostDropTable(t)
  \/ \E i \in InstIds : HostRegisterExternal(i)
  \/ \E i \in InstIds : HostDropInstance(i)
  \/ Instantiate(ModulesImport)

SpecImport == Init /\ [][NextImport]_vars

\* the imported functions <<instance, index>> of the instances that
\* instantiate has returned, while the exporting instance exists
ResolvedImports ==
  {p \in InstIds \X (1..2) :
     /\ instances[p[1]].holder \in {"host", "host_rc"}
     /\ p[2] <= Len(instances[p[1]].functions)
     /\ instances[p[1]].module.functions[p[2]].import
     /\ instances[p[1]].functions[p[2]].kind = "ImportedWasm"
     /\ instances[instances[p[1]].functions[p[2]].owner].holder \in AliveHolders}

\* the signature an import was declared with, and the signature the function
\* supplied for it was declared with in the instance that exports it
ImportSig(p) == instances[p[1]].module.functions[p[2]].ty
ExportSig(p) ==
  LET f == instances[p[1]].functions[p[2]]
  IN instances[f.owner].module.functions[f.function_index + 1].ty

\* C19: import resolution errors. A function import supplied with a function
\* of a different signature fails with Link('incompatible import type') and
\* no instance is returned: every function import of an instance that
\* instantiate returned was resolved with a function of the signature it
\* declares.
C19_ImportSignature ==
  \A p \in ResolvedImports : ImportSig(p) = ExportSig(p)



(***************************************************************************)
(* Module::initialize on the section stream of a module.  A module is the  *)
(* sequence of its section ids; the payload of every section is one its    *)
(* reader accepts and consumes entirely.  The id LAST_SECTION + 1 stands   *)
(* for every id above LAST_SECTION.                                        *)
(***************************************************************************)
LAST_SECTION == 11
MaxSections == 3
SectionIds == 0..(LAST_SECTION + 1)

RECURSIVE SeqsUpTo(_, _)
SeqsUpTo(S, n) ==
  IF n = 0 THEN {<<>>}
  ELSE SeqsUpTo(S, n - 1)
       \cup {Append(s, x) : s \in {t \in SeqsUpTo(S, n - 1) : Len(t) = n - 1},
                            x \in S}

\* ignore_custom_section: the sections left after the custom ones in front
RECURSIVE ignore_custom_section(_)
ignore_custom_section(ids) ==
  IF ids # <<>> /\ Head(ids) = 0 THEN ignore_custom_section(Tail(ids)) ELSE ids

\* faulty variant: a section that is not the expected one is an error
section_strict(ids, id) ==
  IF ids # <<>> /\ Head(ids) = id
  THEN <<Ok, ignore_custom_section(Tail(ids))>>
  ELSE IF ids # <<>> /\ Head(ids) # 0
       THEN <<Malformed(INVALID_SECTION_ID), ids>>
       ELSE <<Ok, ignore_custom_section(ids)>>

\* section(it, bytes, id, reader): <<error or Ok, the sections left>>
section(ids, id) ==
  IF ids # <<>> /\ Head(ids) = id
  THEN <<Ok, ignore_custom_section(Tail(ids))>>
  ELSE IF ids # <<>> /\ Head(ids) > LAST_SECTION
       THEN <<Malformed(INVALID_SECTION_ID), ids>>
       ELSE <<Ok, ignore_custom_section(ids)>>

\* the calls section(.., id, ..) for id, id + 1, .. LAST_SECTION and the
\* check that no byte is left
RECURSIVE initialize(_, _)
initialize(ids, id) ==
  IF id > LAST_SECTION
  THEN IF ids # <<>> THEN Malformed(JUNK_AFTER_LAST) ELSE Ok
  ELSE LET r == section(ids, id)
       IN IF r[1] # Ok THEN r[1] ELSE initialize(r[2], id + 1)

\* Module::compile of a module with the section ids ids; its result does
\* not depend on earlier calls, so one call per behaviour is followed
Compile ==
  /\ ~compiled.called
  /\ \E ids \in SeqsUpTo(SectionIds, MaxSections) :
       compiled' = [called |-> TRUE, ids |-> ids, res |-> initialize(ids, 1),
                    decl |-> <<>>]
  /\ UNCHANGED <<registry, refcounts, zombie_instances, next_id, tables,
                 memories, instances, cur, last, panicked, run, hostmem>>

NextCompile == Compile

SpecCompile == Init /\ [][NextCompile]_vars

\* an id above LAST_SECTION is in the stream
HasUnknownId(ids) == \E k \in DOMAIN ids : ids[k] > LAST_SECTION

\* a standard section comes after a standard section of a greater or equal
\* id
OutOfOrder(ids) ==
  \E j, k \in DOMAIN ids :
    j < k /\ ids[k] \in 1..LAST_SECTION /\ ids[j] \in 1..LAST_SECTION
    /\ ids[j] >= ids[k]

\* the first position that is out of order or holds an unknown id
FirstBad(ids) ==
  CHOOSE k \in DOMAIN ids :
    /\ HasUnknownId(SubSeq(ids, 1, k)) \/ OutOfOrder(SubSeq(ids, 1, k))
    /\ ~(HasUnknownId(SubSeq(ids, 1, k - 1)) \/ OutOfOrder(SubSeq(ids, 1, k - 1)))

\* C20 as stated: every module with a standard section out of order or
\* duplicated, or with a section id above 11, is rejected with
\* Malformed('invalid section id').
C20_InvalidSectionId ==
  (compiled.called /\ (OutOfOrder(compiled.ids) \/ HasUnknownId(compiled.ids)))
    => compiled.res = Malformed(INVALID_SECTION_ID)

\* C20, amended: every such module is rejected with a Malformed error. The
\* error is 'invalid section id' only when an id above 11 is in the stream;
\* in a stream without custom sections it is 'invalid section id' exactly
\* when the first offending section has an id above 11 and the data section
\* (11) does not precede it, and 'junk after last section' otherwise.
C20_SectionOrder ==
  (compiled.called /\ (OutOfOrder(compiled.ids) \/ HasUnknownId(compiled.ids)))
    => LET ids == compiled.ids
           k == FirstBad(ids)
       IN /\ compiled.res \in {Malformed(INVALID_SECTION_ID),
                               Malformed(JUNK_AFTER_LAST)}
          /\ compiled.res = Malformed(INVALID_SECTION_ID) => HasUnknownId(ids)
          /\ (\A j \in DOMAIN ids : ids[j] # 0) =>
               (compiled.res = Malformed(INVALID_SECTION_ID)
                  <=> /\ ids[k] > LAST_SECTION
                      /\ \A j \in 1..(k - 1) : ids[j] # LAST_SECTION)

\* a module with a duplicated standard section was rejected
C20_Witness ==
  /\ compiled.called
  /\ Len(compiled.ids) = 2
  /\ compiled.ids[1] = compiled.ids[2]
  /\ compiled.ids[1] \in 1..LAST_SECTION
  /\ compiled.res = Malformed(JUNK_AFTER_LAST)


(***************************************************************************)
(* Custom sections at section boundaries.                                  *)
(***************************************************************************)
\* the stream ids with a custom section (id 0) put in after its first k
\* sections
InsertCustom(ids, k) ==
  SubSeq(ids, 1, k) \o <<0>> \o SubSeq(ids, k + 1, Len(ids))

\* C21: if compile accepts a module, it also accepts the module with a
\* well-formed custom section (id 0) put in at any section boundary: before
\* the first standard section (the Type section included), between two
\* sections, or after the last one.
C21_CustomTransparent ==
  (compiled.called /\ compiled.res = Ok)
    => \A k \in 0..Len(compiled.ids) :
         initialize(InsertCustom(compiled.ids, k), 1) = Ok


(***************************************************************************)
(* Section readers.  A module is given by what its sections decode to:     *)
(* the number of functions (none imported), whether it has a table and a   *)
(* memory, the number of globals, its export descriptors in order, and for *)
(* the code section the declared length of each function entry, the bytes  *)
(* its local declarations take and the bytes its body takes up to the end  *)
(* opcode of the function.  overflow_checks tells whether the build checks *)
(* integer arithmetic (a debug build) or wraps (a release build).          *)
(***************************************************************************)
\* the process ended in a panic instead of returning
Abort == [kind |-> "abort", msg |-> ""]

ExternTypes == {"func", "table", "mem", "global"}

ExportDesc(utf8, name, extern_type, idx) ==
  [utf8 |-> utf8, name |-> name, extern_type |-> extern_type, idx |-> idx]

ModuleDecl(functions, table, memory, globals, exports, function_length,
           header, body, overflow_checks) ==
  [functions |-> functions, table |-> table, memory |-> memory,
   globals |-> globals, exports |-> exports,
   function_length |-> function_length, header |-> header, body |-> body,
   overflow_checks |-> overflow_checks]

\* the check of one export descriptor against the module read so far
ExportCheck(d, e) ==
  CASE e.extern_type = "func" ->
         IF e.idx >= d.functions THEN Validation(UNKNOWN_FUNC) ELSE Ok
    [] e.extern_type = "table" ->
         IF e.idx # 0 THEN Validation(UNKNOWN_TABLE) ELSE Ok
    [] e.extern_type = "mem" ->
         IF e.idx # 0 \/ d.memory THEN Validation(UNKNOWN_MEMORY) ELSE Ok
    [] e.extern_type = "global" ->
         IF e.idx >= d.globals THEN Validation(UNKNOWN_GLOBAL) ELSE Ok

\* parse_export_section: the descriptors exports are still to be read, the
\* names in names are in the export map
RECURSIVE parse_export_section(_, _, _)
parse_export_section(d, exports, names) ==
  IF exports = <<>> THEN Ok
  ELSE LET e == Head(exports)
       IN IF ~e.utf8 THEN Abort
          ELSE IF e.name \in names THEN Validation(DUP_EXPORT_NAME)
          ELSE IF ExportCheck(d, e) # Ok THEN ExportCheck(d, e)
          ELSE parse_export_section(d, Tail(exports), names \cup {e.name})

\* validate_function on the body range start..end_expected (relative to the
\* start of the function entry): the validator stops after the end opcode
\* of the function and compares its position with the end of the range
validate_function_range(d, end_expected) ==
  IF d.header + d.body # end_expected
  THEN Malformed(SECTION_SIZE_MISMATCH) ELSE Ok

\* parse_code_section: every function entry has the same shape
parse_code_section(d) ==
  IF d.functions = 0 THEN Ok
  ELSE IF d.function_length < d.header
       THEN IF d.overflow_checks THEN Abort
            ELSE validate_function_range(d, d.function_length)
       ELSE validate_function_range(d, d.header +
                                       (d.function_length - d.header))

\* the section ids of the module d
SectionsOf(d) ==
  (IF d.functions > 0 THEN <<1, 3>> ELSE <<>>)
  \o (IF d.table THEN <<4>> ELSE <<>>)
  \o (IF d.memory THEN <<5>> ELSE <<>>)
  \o (IF d.globals > 0 THEN <<6>> ELSE <<>>)
  \o (IF d.exports # <<>> THEN <<7>> ELSE <<>>)
  \o (IF d.functions > 0 THEN <<10>> ELSE <<>>)

\* Module::compile of the module d: the readers of its sections in order
compile(d) ==
  IF parse_export_section(d, d.exports, {}) # Ok
  THEN parse_export_section(d, d.exports, {})
  ELSE parse_code_section(d)

MaxExports == 2
ExportNames == {"a", "b"}
ExportDescs ==
  {ExportDesc(u, n, t, i) :
     u \in BOOLEAN, n \in ExportNames, t \in ExternTypes, i \in 0..1}

\* Module::compile of a module with an export section; its code section is
\* consistent
CompileExports ==
  /\ ~compiled.called
  /\ \E f \in 0..1, t \in BOOLEAN, m \in BOOLEAN, g \in 0..1,
        ex \in SeqsUpTo(ExportDescs, MaxExports) :
       LET d == ModuleDecl(f, t, m, g, ex, 2, 1, 1, TRUE)
       IN compiled' = [called |-> TRUE, ids |-> SectionsOf(d),
                       res |-> compile(d), decl |-> d]
  /\ UNCHANGED <<registry, refcounts, zombie_instances, next_id, tables,
                 memories, instances, cur, last, panicked, run, hostmem>>

\* Module::compile of a module with one function whose code entry declares
\* function_length bytes
CompileCode ==
  /\ ~compiled.called
  /\ \E fl \in 0..3, h \in 1..2, b \in 1..2, oc \in BOOLEAN :
       LET d == ModuleDecl(1, FALSE, FALSE, 0, <<>>, fl, h, b, oc)
       IN compiled' = [called |-> TRUE, ids |-> SectionsOf(d),
                       res |-> compile(d), decl |-> d]
  /\ UNCHANGED <<registry, refcounts, zombie_instances, next_id, tables,
                 memories, instances, cur, last, panicked, run, hostmem>>

NextDecl == CompileExports \/ CompileCode

SpecDecl == Init /\ [][NextDecl]_vars

ErrorKinds ==
  {"Ok", "Malformed", "Validation", "Trap", "Link", "Uninstantiable"}

\* C22: compile is total: for every input Module::compile returns a module
\* or an error of one of the five kinds; it never aborts.
C22_CompileTotal ==
  compiled.called => compiled.res.kind \in ErrorKinds



\* the module d has the entity the export descriptor e names
ExportExists(d, e) ==
  CASE e.extern_type = "func" -> e.idx < d.functions
    [] e.extern_type = "global" -> e.idx < d.globals
    [] e.extern_type = "mem" -> e.idx = 0 /\ d.memory
    [] e.extern_type = "table" -> e.idx = 0 /\ d.table

\* the validation error that names the kind of the export descriptor e
ExportUnknown(e) ==
  CASE e.extern_type = "func" -> Validation(UNKNOWN_FUNC)
    [] e.extern_type = "global" -> Validation(UNKNOWN_GLOBAL)
    [] e.extern_type = "mem" -> Validation(UNKNOWN_MEMORY)
    [] e.extern_type = "table" -> Validation(UNKNOWN_TABLE)

\* a module of CompileExports whose export names are UTF-8 and distinct
PlainExports ==
  /\ compiled.called
  /\ DOMAIN compiled.decl # {}
  /\ compiled.decl.function_length = compiled.decl.header + compiled.decl.body
  /\ \A k \in DOMAIN compiled.decl.exports : compiled.decl.exports[k].utf8
  /\ \A j, k \in DOMAIN compiled.decl.exports :
       j # k => compiled.decl.exports[j].name # compiled.decl.exports[k].name

\* C23: compile accepts an export descriptor iff its index refers to an
\* existing entity of its kind (function or global: idx below their number;
\* memory or table: idx = 0 and the module has one); otherwise it fails with
\* the matching validation error.
C23_ExportBounds ==
  PlainExports =>
    LET d == compiled.decl
        bad == {k \in DOMAIN d.exports : ~ExportExists(d, d.exports[k])}
    IN IF bad = {} THEN compiled.res = Ok
       ELSE compiled.res =
              ExportUnknown(d.exports[CHOOSE k \in bad : \A j \in bad : k <= j])


(***************************************************************************)
(* Start functions of any signature.                                       *)
(***************************************************************************)
\* parse_start_section: the only check on the start index
parse_start_section(M) ==
  IF M.start # NoStart /\ M.start >= Len(M.functions)
  THEN Validation(UNKNOWN_FUNC) ELSE Ok

\* SpecStart: modules with a table, element segments and a start function
\* of type () -> () or (i32) -> ()
ModulesStart ==
  {M \in {MkModule(tk, "none", fs, el, <<>>, st) :
            tk \in {"own", "import"}, fs \in FuncVectors({S0, S3}, {BodyEnd}),
            el \in ElemChoices(1), st \in {NoStart, 0, 2}} :
     parse_start_section(M) = Ok}

NextStart ==
  \/ \E initial \in 1..MaxTableLen : HostTableNew(initial, MaxTableLen)
  \/ \E t \in TableIds : HostDropTable(t)
  \/ \E i \in InstIds : HostDropInstance(i)
  \/ Instantiate(ModulesStart)

SpecStart == Init /\ [][NextStart]_vars

\* the instantiate in progress is of a module whose start function does not
\* have the signature () -> ()
StartMistyped ==
  /\ cur.phase # "idle"
  /\ cur.start # NoStart
  /\ instances[cur.id].module.functions[cur.start + 1].ty # S0

\* C24: compile rejects every module whose start function does not have the
\* signature () -> (), so no such module reaches instantiation and no
\* element or data segment is ever written on behalf of such a module: the
\* tables that existed when instantiate began keep their elements.
C24_StartSignature ==
  StartMistyped =>
    \A t \in TableIds :
      cur.snap.tables[t].live => tables[t].elements = cur.snap.tables[t].elements


(***************************************************************************)
(* Constant expressions.  An expression is the sequence of its opcodes up  *)
(* to, not including, the end opcode 0x0b; immediates are well-formed and  *)
(* global.get names global 0.  The opcodes, in decimal: 35 global.get,     *)
(* 65..68 i32/i64/f32/f64.const, 106..108 i32.add/sub/mul, 122 i64.ctz,    *)
(* 123 i64.popcnt, 124..126 i64.add/sub/mul, 1 nop.                        *)
(***************************************************************************)
TYPE_MISMATCH == "type mismatch"
CONST_EXP_REQUIRED == "constant expression required"
ILLEGAL_OP == "illegal opcode"

\* Module::validate_const from the opcode at position k on, stack holding
\* the types pushed so far; globals is the number of globals, all of them
\* imported, immutable and of type i32
RECURSIVE validate_const(_, _, _, _, _)
validate_const(expr, k, stack, expected, globals) ==
  IF k > Len(expr)
  THEN IF Len(stack) = 1 /\ stack[1] = expected
       THEN Ok ELSE Validation(TYPE_MISMATCH)
  ELSE LET byte == expr[k]
           push(ty) == validate_const(expr, k + 1, Append(stack, ty), expected,
                                      globals)
           arith(ty) ==
             IF Len(stack) < 2 \/ stack[Len(stack)] # ty
                \/ stack[Len(stack) - 1] # ty
             THEN Validation(TYPE_MISMATCH)
             ELSE validate_const(expr, k + 1, SubSeq(stack, 1, Len(stack) - 1),
                                 expected, globals)
       IN CASE byte = 35 ->
                 IF 0 >= globals THEN Validation(UNKNOWN_GLOBAL) ELSE push(I32)
            [] byte = 65 -> push(I32)
            [] byte = 66 -> push(I64)
            [] byte = 67 -> push(F32)
            [] byte = 68 -> push(F64)
            [] byte \in {106, 107, 108} -> arith(I32)
            [] byte \in {122, 123, 124} -> arith(I64)
            [] OTHER -> Malformed(ILLEGAL_OP)

\* Instance::eval_const from the opcode at position k on, depth values on
\* its stack; the instance has globals globals
RECURSIVE eval_const(_, _, _, _)
eval_const(expr, k, depth, globals) ==
  IF k > Len(expr)
  THEN IF depth = 0 THEN Abort ELSE Ok
  ELSE LET op == expr[k]
       IN CASE op \in {65, 66, 67, 68} ->
                 eval_const(expr, k + 1, depth + 1, globals)
            [] op = 35 ->
                 IF 0 >= globals THEN Validation(UNKNOWN_GLOBAL)
                 ELSE eval_const(expr, k + 1, depth + 1, globals)
            [] op \in {106, 107, 108, 124, 125, 126} ->
                 IF depth < 2 THEN Abort
                 ELSE eval_const(expr, k + 1, depth - 1, globals)
            [] OTHER -> Validation(CONST_EXP_REQUIRED)

MaxExpr == 3
ConstOpcodes == {1, 35, 65, 66, 67, 68, 106, 107, 108, 122, 123, 124, 125, 126}

\* Module::compile of a module with globals imported globals and one own
\* global of type expected whose initializer is expr
CompileConst ==
  /\ ~compiled.called
  /\ \E expr \in SeqsUpTo(ConstOpcodes, MaxExpr), expected \in {I32, I64},
        globals \in 0..1 :
       compiled' = [called |-> TRUE, ids |-> <<6>>,
                    res |-> validate_const(expr, 1, <<>>, expected, globals),
                    decl |-> [expr |-> expr, expected |-> expected,
                              globals |-> globals]]
  /\ UNCHANGED <<registry, refcounts, zombie_instances, next_id, tables,
                 memories, instances, cur, last, panicked, run, hostmem>>

NextConst == CompileConst

SpecConst == Init /\ [][NextConst]_vars

\* the opcodes of constant expressions
ConstInstructions == {35, 65, 66, 67, 68, 106, 107, 108, 124, 125, 126}

\* C25: the constant-expression validator accepts exactly i32.const,
\* i64.const, f32.const, f64.const, global.get, i32.add/sub/mul
\* (0x6a..0x6c), i64.add/sub/mul (0x7c..0x7e) and end; every other opcode
\* (i64.ctz 0x7a, i64.popcnt 0x7b) is rejected, and every expression the
\* validator accepts is evaluated by eval_const without error.
C25_ConstInstructions ==
  compiled.called =>
    LET d == compiled.decl
    IN /\ compiled.res = Ok =>
            /\ \A k \in DOMAIN d.expr : d.expr[k] \in ConstInstructions
            /\ eval_const(d.expr, 1, 0, d.globals) = Ok
       /\ (d.expected = I64 /\ Len(d.expr) = 3 /\ d.expr[1] = 66 /\ d.expr[2] = 66
           /\ d.expr[3] \in {124, 125, 126}) => compiled.res = Ok


(***************************************************************************)
(* The function validator over the bytes of a body.  A body is a sequence  *)
(* of bytes below 128, so every LEB immediate takes one byte and decodes   *)
(* to that byte; offsets count from the start of the body.  The function   *)
(* has type () -> () and the module declares the one type () -> (); the    *)
(* body is the last of the module's bytes, so a read past it fails.  The   *)
(* state of a validation is the record                                     *)
(*   body, memory (the module has a memory), pc (offset of the next byte), *)
(*   vals (val_stack), ctrl (ctrl_stack), side (the side-table), res, done *)
(* The opcodes, in decimal: 0 unreachable, 1 nop, 2 block, 3 loop, 4 if,   *)
(* 5 else, 11 end, 26 drop, 40 i32.load, 41 i64.load, 45 i32.load8_u,      *)
(* 47 i32.load16_u, 54 i32.store, 55 i64.store, 58 i32.store8,             *)
(* 59 i32.store16, 63 memory.size, 64 memory.grow (also the empty block    *)
(* type), 65 i32.const, 66 i64.const, 127 the block type i32.              *)
(***************************************************************************)
ZERO_FLAG_EXPECTED == "zero flag expected"
INT_TOO_LARGE == "integer too large"
ALIGNMENT_TOO_LARGE == "alignment must not be larger than natural"
UNKNOWN_INSTRUCTION == "unknown instruction"
ELSE_MUST_CLOSE_IF == "else must close an if"
INVALID_VALUE_TYPE == "invalid value type"
AnyType == "any"

\* validator ControlFrame
VFrame(kind, height, result, sig_pc, else_start) ==
  [kind |-> kind, height |-> height, unreachable |-> FALSE, result |-> result,
   sig_pc |-> sig_pc, else_start |-> else_start]

VFail(S, err) == [S EXCEPT !.res = err]

\* the byte at offset pc, read_u8 and one-byte LEB reads: <<byte, state>>;
\* past the end the state carries the error
ReadByte(S) ==
  IF S.pc >= Len(S.body) THEN <<0, VFail(S, Malformed(UNEXPECTED_END))>>
  ELSE <<S.body[S.pc + 1], [S EXCEPT !.pc = S.pc + 1]>>

\* ValidatorStack::pop_val: <<type popped, state>>
pop_val(S) ==
  IF S.ctrl = <<>> THEN <<AnyType, VFail(S, Validation(TYPE_MISMATCH))>>
  ELSE LET frame == S.ctrl[Len(S.ctrl)]
       IN IF Len(S.vals) = frame.height
          THEN IF frame.unreachable THEN <<AnyType, S>>
               ELSE <<AnyType, VFail(S, Validation(TYPE_MISMATCH))>>
          ELSE IF Len(S.vals) < frame.height
               THEN <<AnyType, VFail(S, Validation(TYPE_MISMATCH))>>
               ELSE <<S.vals[Len(S.vals)],
                      [S EXCEPT !.vals = SubSeq(S.vals, 1, Len(S.vals) - 1)]>>

\* ValidatorStack::pop_val_expect, the state after it
pop_val_expect(S, expect) ==
  LET r == pop_val(S)
  IN IF r[2].res # Ok THEN r[2]
     ELSE IF r[1] = AnyType \/ expect = AnyType THEN r[2]
     ELSE IF r[1] # expect THEN VFail(r[2], Validation(TYPE_MISMATCH))
     ELSE r[2]

push_val(S, ty) == [S EXCEPT !.vals = Append(S.vals, ty)]

\* Signature::read of a block type: <<result type, state>>
SignatureRead(S) ==
  LET r == ReadByte(S)
  IN IF r[2].res # Ok THEN <<NoResult, r[2]>>
     ELSE IF r[1] = 64 THEN <<NoResult, r[2]>>
     ELSE IF r[1] = 127 THEN <<I32, r[2]>>
     ELSE IF r[1] = 126 THEN <<I64, r[2]>>
     ELSE IF r[1] = 125 THEN <<F32, r[2]>>
     ELSE IF r[1] = 124 THEN <<F64, r[2]>>
     ELSE IF r[1] = 255 THEN <<AnyType, r[2]>>
     ELSE IF r[1] = 0 THEN <<NoResult, r[2]>>
     ELSE <<NoResult, VFail(r[2], Malformed(INVALID_VALUE_TYPE))>>

\* side-table: put_sig makes the entry of the construct whose block type is
\* at sig_pc; its end and else targets are not filled yet
put_sig(S, sig_pc, body_pc, has_res) ==
  LET e == [body_pc |-> body_pc, end_pc |-> 0, else_pc |-> 0, filled |-> FALSE,
            has_result |-> has_res]
  IN [S EXCEPT !.side = [x \in DOMAIN S.side \cup {sig_pc} |->
                           IF x = sig_pc THEN e ELSE S.side[x]]]

\* side-table: fill_end_else sets the end and else targets of an entry
fill_end_else(S, sig_pc, end_pc, else_pc) ==
  [S EXCEPT !.side[sig_pc].end_pc = end_pc, !.side[sig_pc].else_pc = else_pc,
            !.side[sig_pc].filled = TRUE]

\* a faulty validate_block that records the offset of the block type as the
\* body's start
validate_block_body_at_sig(S, kind) ==
  LET sig_pc == S.pc
      r == SignatureRead(S)
      U1 == IF kind = "if" /\ r[2].res = Ok THEN pop_val_expect(r[2], I32)
            ELSE r[2]
  IN IF U1.res # Ok THEN U1
     ELSE put_sig([U1 EXCEPT !.ctrl = Append(U1.ctrl,
                     VFrame(kind, Len(U1.vals), r[1], sig_pc, 0))],
                  sig_pc, sig_pc, r[1] # NoResult)

\* validate_block, validate_loop, validate_if after the opcode was read
validate_block(S, kind) ==
  LET sig_pc == S.pc
      r == SignatureRead(S)
      U1 == IF kind = "if" /\ r[2].res = Ok THEN pop_val_expect(r[2], I32)
            ELSE r[2]
  IN IF U1.res # Ok THEN U1
     ELSE put_sig([U1 EXCEPT !.ctrl = Append(U1.ctrl,
                     VFrame(kind, Len(U1.vals), r[1], sig_pc, 0))],
                  sig_pc, U1.pc, r[1] # NoResult)

\* validate_else after the opcode was read
validate_else(S) ==
  IF S.ctrl = <<>> \/ S.ctrl[Len(S.ctrl)].kind # "if"
  THEN VFail(S, Validation(ELSE_MUST_CLOSE_IF))
  ELSE LET frame == S.ctrl[Len(S.ctrl)]
           U1 == IF frame.result # NoResult THEN pop_val_expect(S, frame.result)
                 ELSE S
       IN IF U1.res # Ok THEN U1
          ELSE IF Len(U1.vals) # frame.height
               THEN VFail(U1, Validation(TYPE_MISMATCH))
               ELSE [U1 EXCEPT !.ctrl[Len(U1.ctrl)] =
                       VFrame("ifelse", frame.height, frame.result,
                              frame.sig_pc, U1.pc)]

\* a faulty validate_end that makes the else target of an if without else the
\* offset after its end
validate_end_else_past_end(S) ==
  IF Len(S.ctrl) = 1
  THEN IF Len(S.vals) # 0 THEN VFail(S, Validation(TYPE_MISMATCH))
       ELSE [S EXCEPT !.done = TRUE]
  ELSE LET frame == S.ctrl[Len(S.ctrl)]
           U1 == IF frame.result # NoResult THEN pop_val_expect(S, frame.result)
                 ELSE S
           U2 == [U1 EXCEPT !.ctrl = SubSeq(U1.ctrl, 1, Len(U1.ctrl) - 1)]
           U3 == CASE frame.kind = "block" ->
                        fill_end_else(U2, frame.sig_pc, U2.pc, U2.pc)
                   [] frame.kind = "if" ->
                        IF frame.result # NoResult
                        THEN VFail(U2, Validation(TYPE_MISMATCH))
                        ELSE fill_end_else(U2, frame.sig_pc, U2.pc, U2.pc)
                   [] frame.kind = "ifelse" ->
                        fill_end_else(U2, frame.sig_pc, U2.pc, frame.else_start)
                   [] OTHER -> U2
       IN IF U1.res # Ok THEN U1
          ELSE IF Len(U2.vals) # frame.height
               THEN VFail(U2, Validation(TYPE_MISMATCH))
               ELSE IF U3.res # Ok \/ frame.result = NoResult THEN U3
               ELSE push_val(U3, frame.result)

\* validate_end after the opcode was read
validate_end(S) ==
  IF Len(S.ctrl) = 1
  THEN IF Len(S.vals) # 0 THEN VFail(S, Validation(TYPE_MISMATCH))
       ELSE [S EXCEPT !.done = TRUE]
  ELSE LET frame == S.ctrl[Len(S.ctrl)]
           U1 == IF frame.result # NoResult THEN pop_val_expect(S, frame.result)
                 ELSE S
           U2 == [U1 EXCEPT !.ctrl = SubSeq(U1.ctrl, 1, Len(U1.ctrl) - 1)]
           U3 == CASE frame.kind = "block" ->
                        fill_end_else(U2, frame.sig_pc, U2.pc, U2.pc)
                   [] frame.kind = "if" ->
                        IF frame.result # NoResult
                        THEN VFail(U2, Validation(TYPE_MISMATCH))
                        ELSE fill_end_else(U2, frame.sig_pc, U2.pc, U2.pc - 1)
                   [] frame.kind = "ifelse" ->
                        fill_end_else(U2, frame.sig_pc, U2.pc, frame.else_start)
                   [] OTHER -> U2
       IN IF U1.res # Ok THEN U1
          ELSE IF Len(U2.vals) # frame.height
               THEN VFail(U2, Validation(TYPE_MISMATCH))
               ELSE IF U3.res # Ok \/ frame.result = NoResult THEN U3
               ELSE push_val(U3, frame.result)

\* assert_valid_memory!
assert_valid_memory(S) ==
  LET r == ReadByte(S)
  IN IF r[2].res # Ok THEN r[2]
     ELSE IF r[1] # 0 THEN VFail(r[2], Malformed(ZERO_FLAG_EXPECTED))
     ELSE IF ~S.memory THEN VFail(r[2], Validation(UNKNOWN_MEMORY))
     ELSE r[2]

\* the rest of validate_load and validate_store once align_bits is known;
\* 1u64 << 31 is written apart, it is above every natural alignment
AlignAndOffset(S, align_bits, natural_align) ==
  IF align_bits >= 32 THEN VFail(S, Malformed(INT_TOO_LARGE))
  ELSE LET off == ReadByte(S)
       IN IF off[2].res # Ok THEN off[2]
          ELSE IF align_bits = 31 \/ 2 ^ align_bits > natural_align
               THEN VFail(off[2], Validation(ALIGNMENT_TOO_LARGE))
               ELSE off[2]

validate_load(S, val_ty, natural_align) ==
  LET a == ReadByte(S)
      U1 == IF a[2].res # Ok THEN a[2]
            ELSE IF ~S.memory THEN VFail(a[2], Validation(UNKNOWN_MEMORY))
            ELSE AlignAndOffset(a[2], a[1], natural_align)
  IN IF U1.res # Ok THEN U1
     ELSE LET U2 == pop_val_expect(U1, I32)
          IN IF U2.res # Ok THEN U2 ELSE push_val(U2, val_ty)

\* (1 << 6) & align_bits != 0, for align_bits below 128
Bit6(n) == (n \div 64) % 2 = 1

validate_store(S, val_ty, natural_align) ==
  LET a == ReadByte(S)
      b == IF a[2].res = Ok /\ Bit6(a[1]) THEN ReadByte(a[2]) ELSE a
      U1 == IF b[2].res # Ok THEN b[2]
            ELSE IF ~Bit6(a[1]) /\ ~S.memory
                 THEN VFail(b[2], Validation(UNKNOWN_MEMORY))
                 ELSE AlignAndOffset(b[2], b[1], natural_align)
  IN IF U1.res # Ok THEN U1
     ELSE LET U2 == pop_val_expect(U1, val_ty)
          IN IF U2.res # Ok THEN U2 ELSE pop_val_expect(U2, I32)

UNKNOWN_LABEL == "unknown label"

\* ValidatorStack::unreachable
unreachable(S) ==
  IF S.ctrl = <<>> THEN S
  ELSE [S EXCEPT !.vals = SubSeq(S.vals, 1, S.ctrl[Len(S.ctrl)].height),
                 !.ctrl[Len(S.ctrl)].unreachable = TRUE]

\* ValidatorStack::pop_vals, the state after it
RECURSIVE pop_vals(_, _)
pop_vals(S, types) ==
  IF types = <<>> \/ S.res # Ok THEN S
  ELSE pop_vals(pop_val_expect(S, types[Len(types)]),
                SubSeq(types, 1, Len(types) - 1))

\* validate_br after the opcode was read; the frames modelled have no
\* parameters, so a loop label pops nothing
validate_br(S) ==
  LET r == ReadByte(S)
      depth == r[1]
      T == r[2]
  IN IF T.res # Ok THEN T
     ELSE IF depth >= Len(T.ctrl) THEN VFail(T, Validation(UNKNOWN_LABEL))
     ELSE LET target == T.ctrl[Len(T.ctrl) - depth]
              U1 == IF target.kind # "loop" /\ target.result # NoResult
                    THEN pop_val_expect(T, target.result) ELSE T
          IN IF U1.res # Ok THEN U1 ELSE unreachable(U1)

\* validate_return
validate_return(S) ==
  IF S.ctrl = <<>> THEN VFail(S, Validation(UNKNOWN_LABEL))
  ELSE LET target == S.ctrl[1]
           U1 == IF target.result # NoResult
                 THEN pop_val_expect(S, target.result) ELSE S
       IN IF U1.res # Ok THEN U1 ELSE unreachable(U1)

\* validate_call after the opcode was read; S.funcs holds the declared type
\* of every function of the module
validate_call(S) ==
  LET r == ReadByte(S)
      func_idx == r[1]
      T == r[2]
  IN IF T.res # Ok THEN T
     ELSE IF func_idx >= Len(T.funcs) THEN VFail(T, Validation(UNKNOWN_FUNC))
     ELSE LET sig == T.funcs[func_idx + 1]
              U1 == pop_vals(T, sig.params)
          IN IF U1.res # Ok THEN U1
             ELSE IF sig.result # NoResult THEN push_val(U1, sig.result)
             ELSE U1

\* the validator table's entries of block, loop and if, and of the loads
\* and stores
BlockKind(op) == CASE op = 2 -> "block" [] op = 3 -> "loop" [] op = 4 -> "if"

LoadOps == {40, 41, 45, 47}
StoreOps == {54, 55, 58, 59}

\* the natural alignment the validator table gives the opcode
NaturalAlign(op) ==
  CASE op \in {40, 54} -> 4
    [] op \in {41, 55} -> 8
    [] op \in {45, 58} -> 1
    [] op \in {47, 59} -> 2

\* the value type the validator table gives the load or store
AccessType(op) == IF op \in {41, 55} THEN I64 ELSE I32

\* one turn of the validation loop: read the opcode and run its validator
validate_op(S) ==
  LET r == ReadByte(S)
      opcode == r[1]
      T == r[2]
  IN IF T.res # Ok THEN T
     ELSE CASE opcode = 0 ->
                 LET h == T.ctrl[Len(T.ctrl)].height
                 IN [T EXCEPT !.vals = SubSeq(T.vals, 1, h),
                              !.ctrl[Len(T.ctrl)].unreachable = TRUE]
            [] opcode = 1 -> T
            [] opcode \in {2, 3, 4} -> validate_block(T, BlockKind(opcode))
            [] opcode = 5 -> validate_else(T)
            [] opcode = 11 -> validate_end(T)
            [] opcode = 12 -> validate_br(T)
            [] opcode = 15 -> validate_return(T)
            [] opcode = 16 -> validate_call(T)
            [] opcode = 26 -> pop_val(T)[2]
            [] opcode \in LoadOps ->
                 validate_load(T, AccessType(opcode), NaturalAlign(opcode))
            [] opcode \in StoreOps ->
                 validate_store(T, AccessType(opcode), NaturalAlign(opcode))
            [] opcode = 63 ->
                 LET T1 == assert_valid_memory(T)
                 IN IF T1.res # Ok THEN T1 ELSE push_val(T1, I32)
            [] opcode = 64 ->
                 LET T1 == assert_valid_memory(T)
                     T2 == pop_val_expect(T1, I32)
                 IN IF T1.res # Ok THEN T1
                    ELSE IF T2.res # Ok THEN T2 ELSE push_val(T2, I32)
            [] opcode \in {65, 66} ->
                 LET v == ReadByte(T)
                 IN IF v[2].res # Ok THEN v[2]
                    ELSE push_val(v[2], IF opcode = 65 THEN I32 ELSE I64)
            [] OTHER -> VFail(T, Malformed(UNKNOWN_INSTRUCTION))

RECURSIVE ValidationLoop(_)
ValidationLoop(S) ==
  IF S.res # Ok \/ S.done THEN S ELSE ValidationLoop(validate_op(S))

\* Validator::validate_function on a function of type () -> () whose body
\* range is the whole of body, in a module whose functions have the types
\* funcs
validate_function_in(body, memory, funcs) ==
  LET S == ValidationLoop(
             [body |-> body, memory |-> memory, funcs |-> funcs, pc |-> 0,
              vals |-> <<>>,
              ctrl |-> <<VFrame("function", 0, NoResult, 0, 0)>>,
              side |-> <<>>, res |-> Ok, done |-> FALSE])
  IN IF S.res = Ok /\ S.pc # Len(body)
     THEN VFail(S, Malformed(SECTION_SIZE_MISMATCH)) ELSE S

\* the same in a module that has this function only
validate_function(body, memory) == validate_function_in(body, memory, <<S0>>)

(***************************************************************************)
(* Memory instructions in straight-line bodies.                            *)
(***************************************************************************)

\* Instance::interpret on a straight-line body from offset pc on: the
\* loads and stores it executes, each with the immediates it reads
RECURSIVE MemAccesses(_, _)
MemAccesses(body, pc) ==
  IF pc >= Len(body) THEN <<>>
  ELSE LET op == body[pc + 1]
       IN CASE op \in LoadOps \cup StoreOps ->
                 IF pc + 2 >= Len(body) THEN <<>>
                 ELSE <<[op |-> op, align |-> body[pc + 2], offset |-> body[pc + 3]]>>
                      \o MemAccesses(body, pc + 3)
            [] op \in {63, 64, 65, 66} -> MemAccesses(body, pc + 2)
            [] op \in {1, 26} -> MemAccesses(body, pc + 1)
            [] OTHER -> <<>>

AlignValues == {0, 1, 2, 3, 4, 31, 32, 64, 65, 66, 67, 127}

\* bodies with one memory instruction, its operands pushed before it and
\* its result dropped after it
MemBodies ==
  {<<65, 0, op, a, off, 26>> \o tail \o <<11>> :
     op \in LoadOps, a \in AlignValues, off \in 0..1, tail \in {<<>>, <<1>>}}
  \cup {<<65, 0, IF op = 55 THEN 66 ELSE 65, 0, op, a, off>> \o tail \o <<11>> :
     op \in StoreOps, a \in AlignValues, off \in 0..1, tail \in {<<>>, <<1>>}}
  \cup {<<63, 0, 26, 11>>, <<65, 0, 64, 0, 26, 11>>}

\* Module::compile of a module with one function () -> () with the body
\* body, with or without a memory
CompileMemOp ==
  /\ ~compiled.called
  /\ \E body \in MemBodies, memory \in BOOLEAN :
       LET S == validate_function(body, memory)
       IN compiled' = [called |-> TRUE,
                       ids |-> IF memory THEN <<1, 3, 5, 10>> ELSE <<1, 3, 10>>,
                       res |-> S.res,
                       decl |-> [body |-> body, memory |-> memory, side |-> S.side]]
  /\ UNCHANGED <<registry, refcounts, zombie_instances, next_id, tables,
                 memories, instances, cur, last, panicked, run, hostmem>>

NextMemOp == CompileMemOp

SpecMemOp == Init /\ [][NextMemOp]_vars

\* C26: in a module that declares and imports no memory, validation of
\* every load, every store, memory.size and memory.grow fails with
\* Validation('unknown memory'), whatever the alignment and offset
\* immediates.
C26_MemoryRequired ==
  (compiled.called /\ ~compiled.decl.memory)
    => compiled.res = Validation(UNKNOWN_MEMORY)

\* C27: for every load and store with alignment immediate a and natural
\* access width n, validation rejects the instruction whenever 2^a > n, for
\* every a the LEB decoder accepts (a >= 64 included), so no such access is
\* executed.
C27_AlignmentChecked ==
  (compiled.called /\ compiled.decl.memory /\ compiled.res = Ok)
    => \A k \in DOMAIN MemAccesses(compiled.decl.body, 0) :
         LET acc == MemAccesses(compiled.decl.body, 0)[k]
         IN acc.align < 4 /\ 2 ^ acc.align <= NaturalAlign(acc.op)


(***************************************************************************)
(* Side-table of bodies with nested block, loop and if.                    *)
(***************************************************************************)
Plain == {<<>>, <<1>>}

\* the constructs whose arms are taken from inner
Constructs(inner) ==
  {<<op, 64>> \o i \o <<11>> : op \in {2, 3}, i \in inner}
  \cup {<<65, 0, 4, 64>> \o i \o <<11>> : i \in inner}
  \cup {<<65, 0, 4, 64>> \o i \o <<5>> \o j \o <<11>> : i \in inner, j \in inner}

MaxNesting == 2

RECURSIVE NestedBodies(_)
NestedBodies(n) ==
  IF n = 0 THEN Plain ELSE Plain \cup Constructs(NestedBodies(n - 1))

\* bodies: a construct nested up to MaxNesting deep between optional nops,
\* and constructs that leave an i32 that is dropped
ControlBodies ==
  {pre \o c \o post \o <<11>> :
     pre \in Plain, c \in Constructs(NestedBodies(MaxNesting - 1)), post \in Plain}
  \cup {<<2, 127, 65, 0, 11, 26, 11>>, <<3, 127, 65, 0, 11, 26, 11>>,
        <<65, 0, 4, 127, 65, 0, 5, 65, 7, 11, 26, 11>>,
        <<65, 0, 4, 127, 65, 0, 11, 26, 11>>, <<5, 11>>, <<2, 64, 5, 11, 11>>}

\* Module::compile of a module with one function () -> () with the body body
CompileControl ==
  /\ ~compiled.called
  /\ \E body \in ControlBodies :
       LET S == validate_function(body, FALSE)
       IN compiled' = [called |-> TRUE, ids |-> <<1, 3, 10>>, res |-> S.res,
                       decl |-> [body |-> body, memory |-> FALSE, side |-> S.side]]
  /\ UNCHANGED <<registry, refcounts, zombie_instances, next_id, tables,
                 memories, instances, cur, last, panicked, run, hostmem>>

NextControl == CompileControl

SpecControl == Init /\ [][NextControl]_vars

\* the offsets at which an instruction of body starts, from offset pc on
RECURSIVE OpcodeOffsets(_, _)
OpcodeOffsets(body, pc) ==
  IF pc >= Len(body) THEN {}
  ELSE {pc} \cup OpcodeOffsets(body, IF body[pc + 1] \in {2, 3, 4, 65}
                                     THEN pc + 2 ELSE pc + 1)

\* the offset of the end opcode that closes the construct whose body starts
\* at offset pc, depth constructs being open inside it
RECURSIVE MatchingEndOffset(_, _, _)
MatchingEndOffset(body, pc, depth) ==
  LET op == body[pc + 1]
  IN CASE op \in {2, 3, 4} -> MatchingEndOffset(body, pc + 2, depth + 1)
       [] op = 65 -> MatchingEndOffset(body, pc + 2, depth)
       [] op = 11 -> IF depth = 0 THEN pc
                     ELSE MatchingEndOffset(body, pc + 1, depth - 1)
       [] OTHER -> MatchingEndOffset(body, pc + 1, depth)

\* the offset of the else opcode of the if whose body starts at offset pc,
\* or -1 when it has none
RECURSIVE ElseOffset(_, _, _)
ElseOffset(body, pc, depth) ==
  LET op == body[pc + 1]
  IN CASE op \in {2, 3, 4} -> ElseOffset(body, pc + 2, depth + 1)
       [] op = 65 -> ElseOffset(body, pc + 2, depth)
       [] op = 11 -> IF depth = 0 THEN -1 ELSE ElseOffset(body, pc + 1, depth - 1)
       [] op = 5 -> IF depth = 0 THEN pc ELSE ElseOffset(body, pc + 1, depth)
       [] OTHER -> ElseOffset(body, pc + 1, depth)

\* the offsets of the block, loop and if opcodes of the validated body
ConstructOffsets ==
  {p \in OpcodeOffsets(compiled.decl.body, 0) :
     compiled.decl.body[p + 1] \in {2, 3, 4}}

Validated == compiled.called /\ compiled.res = Ok

IfOffsets == {p \in ConstructOffsets : compiled.decl.body[p + 1] = 4}

\* C29 as stated: for every validated if, else_pc is the offset after the
\* else opcode when the if has an else, and equals end_pc when it has none.
C29_ElseTarget ==
  Validated =>
    \A p \in IfOffsets :
      LET e == compiled.decl.side[p + 1]
          el == ElseOffset(compiled.decl.body, p + 2, 0)
      IN e.else_pc = IF el # -1 THEN el + 1 ELSE e.end_pc

\* C29, amended: for every validated if, else_pc is the offset after the
\* else opcode when the if has an else, and the offset of the matching end
\* opcode itself (end_pc - 1) when it has none.
C29_ElseTargetAtEnd ==
  Validated =>
    \A p \in IfOffsets :
      LET e == compiled.decl.side[p + 1]
          el == ElseOffset(compiled.decl.body, p + 2, 0)
      IN /\ e.filled
         /\ e.else_pc = IF el # -1 THEN el + 1 ELSE e.end_pc - 1
         /\ e.else_pc < e.end_pc

\* an if without else inside the else arm of an if was validated
C29_Witness ==
  /\ Validated
  /\ \E p, q \in IfOffsets :
       /\ ElseOffset(compiled.decl.body, p + 2, 0) # -1
       /\ ElseOffset(compiled.decl.body, q + 2, 0) = -1
       /\ q > ElseOffset(compiled.decl.body, p + 2, 0)
       /\ compiled.decl.side[q + 1].end_pc < compiled.decl.side[p + 1].end_pc


(***************************************************************************)
(* Integer division and remainder of Instance::interpret.  A WasmValue is  *)
(* its 64 raw bits as 8 bytes, least significant first.  An integer of     *)
(* width w is the sequence of its w / 8 bytes, in two's complement where   *)
(* it is signed.                                                           *)
(***************************************************************************)
DIVIDE_BY_ZERO == "integer divide by zero"
INTEGER_OVERFLOW == "integer overflow"

\* the integer 0 in n bytes
ZeroBits(n) == [i \in 1..n |-> 0]

\* the natural number n < 2^24 as an integer of width w
BitsOf(n, w) ==
  [i \in 1..(w \div 8) |-> IF i <= 3 THEN (n \div 256 ^ (i - 1)) % 256 ELSE 0]

\* x + y + c modulo 256^Len(x)
RECURSIVE AddBits(_, _, _)
AddBits(x, y, c) ==
  IF x = <<>> THEN <<>>
  ELSE LET s == x[1] + y[1] + c
       IN <<s % 256>> \o AddBits(Tail(x), Tail(y), s \div 256)

NotBits(x) == [i \in 1..Len(x) |-> 255 - x[i]]

\* wrapping negation and subtraction
NegBits(x) == AddBits(ZeroBits(Len(x)), NotBits(x), 1)
SubBits(x, y) == AddBits(x, NotBits(y), 1)

\* x < y as unsigned integers, compared from byte i down
RECURSIVE LessFrom(_, _, _)
LessFrom(x, y, i) ==
  IF i = 0 THEN FALSE
  ELSE IF x[i] # y[i] THEN x[i] < y[i]
  ELSE LessFrom(x, y, i - 1)

ULess(x, y) == LessFrom(x, y, Len(x))

\* 0, iN::MIN and -1 at width w
ZeroInt(w) == ZeroBits(w \div 8)
MinBits(w) == [i \in 1..(w \div 8) |-> IF i = w \div 8 THEN 128 ELSE 0]
OnesBits(w) == [i \in 1..(w \div 8) |-> 255]

IsNegative(x) == x[Len(x)] >= 128

\* the magnitude of the signed x, as an unsigned integer
Magnitude(x) == IF IsNegative(x) THEN NegBits(x) ELSE x

\* one step of the unsigned division by b # 0: the next lower bit of the
\* dividend is shifted into the running remainder st.r (one byte wider than
\* b), and the next bit of the running quotient st.q is set when b fits
DivStep(st, bit, b) ==
  LET r2 == AddBits(st.r, st.r, bit)
      b1 == b \o <<0>>
  IN IF ULess(r2, b1) THEN [q |-> AddBits(st.q, st.q, 0), r |-> r2]
     ELSE [q |-> AddBits(st.q, st.q, 1), r |-> SubBits(r2, b1)]

\* the eight steps for the byte d of the dividend, from its highest bit
DivByte(st, d, b) ==
  LET s7 == DivStep(st, (d \div 128) % 2, b)
      s6 == DivStep(s7, (d \div 64) % 2, b)
      s5 == DivStep(s6, (d \div 32) % 2, b)
      s4 == DivStep(s5, (d \div 16) % 2, b)
      s3 == DivStep(s4, (d \div 8) % 2, b)
      s2 == DivStep(s3, (d \div 4) % 2, b)
      s1 == DivStep(s2, (d \div 2) % 2, b)
  IN DivStep(s1, d % 2, b)

\* quotient and remainder after the bytes of a from the highest down to
\* byte j
RECURSIVE UDivRem(_, _, _)
UDivRem(a, b, j) ==
  IF j > Len(a) THEN [q |-> ZeroBits(Len(a)), r |-> ZeroBits(Len(a) + 1)]
  ELSE CHOOSE s \in {DivByte(st, a[j], b) : st \in {UDivRem(a, b, j + 1)}} : TRUE

\* the operators / and % of uN
UnsignedDiv(a, b) == UDivRem(a, b, 1).q
UnsignedRem(a, b) == SubSeq(UDivRem(a, b, 1).r, 1, Len(a))

\* the operators / and % of iN where they do not overflow: the quotient is
\* rounded toward zero, the remainder has the sign of the dividend
SignedDiv(a, b) ==
  LET q == UnsignedDiv(Magnitude(a), Magnitude(b))
  IN IF IsNegative(a) # IsNegative(b) THEN NegBits(q) ELSE q

SignedRem(a, b) ==
  LET r == UnsignedRem(Magnitude(a), Magnitude(b))
  IN IF IsNegative(a) THEN NegBits(r) ELSE r

\* WasmValue::as_i32 / as_u32 (w = 32) and as_i64 / as_u64 (w = 64)
as_int(v, w) == SubSeq(v, 1, w \div 8)

\* WasmValue::from_i32 / from_u32 and from_i64 / from_u64
from_int(x) == x \o ZeroBits(8 - Len(x))

\* the outcome of an instruction: the stack it leaves, or the error returned
Pushed(stack, v) == [stack |-> Append(stack, v), error |-> Ok]
Trapped(stack, m) == [stack |-> stack, error |-> Trap(m)]

\* pop_val!() twice: b is the top of the stack, a is below it
Popped(stack) == SubSeq(stack, 1, Len(stack) - 2)

\* a faulty div_s! without the overflow test: iN::MIN / -1 wraps to iN::MIN
div_s_wrapping(stack, w) ==
  LET b == as_int(stack[Len(stack)], w)
      a == as_int(stack[Len(stack) - 1], w)
  IN IF b = ZeroInt(w) THEN Trapped(Popped(stack), DIVIDE_BY_ZERO)
     ELSE Pushed(Popped(stack), from_int(SignedDiv(a, b)))

\* div_s!(i32), div_s!(i64)
div_s(stack, w) ==
  LET b == as_int(stack[Len(stack)], w)
      a == as_int(stack[Len(stack) - 1], w)
  IN IF b = ZeroInt(w) THEN Trapped(Popped(stack), DIVIDE_BY_ZERO)
     ELSE IF a = MinBits(w) /\ b = OnesBits(w)
          THEN Trapped(Popped(stack), INTEGER_OVERFLOW)
          ELSE Pushed(Popped(stack), from_int(SignedDiv(a, b)))

\* div_u!(u32), div_u!(u64)
div_u(stack, w) ==
  LET b == as_int(stack[Len(stack)], w)
      a == as_int(stack[Len(stack) - 1], w)
  IN IF b = ZeroInt(w) THEN Trapped(Popped(stack), DIVIDE_BY_ZERO)
     ELSE Pushed(Popped(stack), from_int(UnsignedDiv(a, b)))

\* rem_s!(i32), rem_s!(i64)
rem_s(stack, w) ==
  LET b == as_int(stack[Len(stack)], w)
      a == as_int(stack[Len(stack) - 1], w)
  IN IF b = ZeroInt(w) THEN Trapped(Popped(stack), DIVIDE_BY_ZERO)
     ELSE IF a = MinBits(w) /\ b = OnesBits(w)
          THEN Pushed(Popped(stack), from_int(ZeroInt(w)))
          ELSE Pushed(Popped(stack), from_int(SignedRem(a, b)))

\* rem_u!(u32), rem_u!(u64)
rem_u(stack, w) ==
  LET b == as_int(stack[Len(stack)], w)
      a == as_int(stack[Len(stack) - 1], w)
  IN IF b = ZeroInt(w) THEN Trapped(Popped(stack), DIVIDE_BY_ZERO)
     ELSE Pushed(Popped(stack), from_int(UnsignedRem(a, b)))

\* the opcodes 0x6d..0x70 (i32) and 0x7f..0x82 (i64)
DivRemOpcodes == {109, 110, 111, 112, 127, 128, 129, 130}

WidthOf(op) == IF op < 127 THEN 32 ELSE 64

\* the arm of the interpreter's match for the opcode op
DivRem(op, stack) ==
  CASE op \in {109, 127} -> div_s(stack, WidthOf(op))
    [] op \in {110, 128} -> div_u(stack, WidthOf(op))
    [] op \in {111, 129} -> rem_s(stack, WidthOf(op))
    [] op \in {112, 130} -> rem_u(stack, WidthOf(op))

\* operands: 0..MaxOperand, their negatives, and the values next to the
\* ends of the signed and unsigned ranges
MaxOperand == 3

Operands(w) ==
  {BitsOf(n, w) : n \in 0..MaxOperand}
  \cup {NegBits(BitsOf(n, w)) : n \in 1..MaxOperand}
  \cup {MinBits(w), AddBits(MinBits(w), BitsOf(1, w), 0),
        SubBits(MinBits(w), BitsOf(1, w))}

\* one division or remainder instruction run on a stack that holds, above a
\* value that stays, its two operands
ExecDivRem ==
  /\ run.status = "none"
  /\ \E op \in DivRemOpcodes :
       \E a \in Operands(WidthOf(op)), b \in Operands(WidthOf(op)) :
         LET stack == <<from_int(BitsOf(1, 32)), from_int(a), from_int(b)>>
             r == DivRem(op, stack)
         IN run' = [status |-> "done",
                    program |-> [op |-> op, stack |-> stack],
                    acts |-> <<>>, result |-> r.stack, error |-> r.error]
  /\ UNCHANGED <<registry, refcounts, zombie_instances, next_id, tables,
                 memories, instances, cur, last, panicked, hostmem, compiled>>

NextDivRem == ExecDivRem

SpecDivRem == Init /\ [][NextDivRem]_vars

\* x * d + c for a byte d
RECURSIVE Scaled(_, _, _)
Scaled(x, d, c) ==
  IF x = <<>> THEN <<c>>
  ELSE LET s == x[1] * d + c
       IN <<s % 256>> \o Scaled(Tail(x), d, s \div 256)

\* x * y as an integer of Len(x) + Len(y) bytes: the multiples of x by the
\* bytes of y from byte i on, added to acc
RECURSIVE MulFrom(_, _, _, _)
MulFrom(x, y, i, acc) ==
  IF i > Len(y) THEN acc
  ELSE MulFrom(x, y, i + 1,
               AddBits(acc, ZeroBits(i - 1) \o Scaled(x, y[i], 0)
                              \o ZeroBits(Len(y) - i), 0))

Product(x, y) == MulFrom(x, y, 1, ZeroBits(Len(x) + Len(y)))

\* q and r are the quotient and the remainder of the unsigned a by b:
\* a = q * b + r and r < b, without wrapping
IsQuotRem(a, b, q, r) ==
  /\ ULess(r, b)
  /\ AddBits(Product(q, b), r \o ZeroBits(Len(a)), 0) = a \o ZeroBits(Len(a))

\* the operands of the instruction that ran, at its width
DivRemRan == run.status = "done" /\ run.program.op \in DivRemOpcodes
OpWidth == WidthOf(run.program.op)
OperandA == SubSeq(run.program.stack[2], 1, OpWidth \div 8)
OperandB == SubSeq(run.program.stack[3], 1, OpWidth \div 8)
SignedOp == run.program.op \in {109, 111, 127, 129}
DivOp == run.program.op \in {109, 110, 127, 128}

\* the value the instruction left on top of the stack, at its width
ResultBits == SubSeq(run.result[Len(run.result)], 1, OpWidth \div 8)

\* the result is the truncating quotient or remainder of a by b: for the
\* signed instructions the magnitudes of quotient and remainder are those
\* of the magnitudes of a and b, the quotient is negative only when the
\* signs of a and b differ and the remainder only when a is negative
Truncating ==
  LET a == IF SignedOp THEN Magnitude(OperandA) ELSE OperandA
      b == IF SignedOp THEN Magnitude(OperandB) ELSE OperandB
      qneg == SignedOp /\ DivOp /\ IsNegative(OperandA) # IsNegative(OperandB)
      rneg == SignedOp /\ ~DivOp /\ IsNegative(OperandA)
      m == IF qneg \/ rneg THEN NegBits(ResultBits) ELSE ResultBits
  IN IF DivOp THEN \E r \in {SubBits(a, SubSeq(Product(m, b), 1, Len(a)))} :
                     IsQuotRem(a, b, m, r)
     ELSE /\ ULess(m, b)
          /\ ~ULess(a, m)
          /\ LET q == UnsignedDiv(SubBits(a, m), b)
             IN IsQuotRem(a, b, q, m)

\* C30: div_s, div_u, rem_s and rem_u of both widths trap with 'integer
\* divide by zero' whenever the divisor is 0; div_s(MIN, -1) traps with
\* 'integer overflow'; rem_s(MIN, -1) returns 0; in every other case no trap
\* occurs and the result is the truncating quotient or remainder.  A trap
\* pushes nothing; a result replaces the two operands and its bits above
\* the width are 0.
C30_DivRem ==
  DivRemRan =>
    IF OperandB = ZeroInt(OpWidth)
    THEN run.error = Trap(DIVIDE_BY_ZERO) /\ Len(run.result) = 1
    ELSE IF SignedOp /\ OperandA = MinBits(OpWidth) /\ OperandB = OnesBits(OpWidth)
    THEN IF DivOp
         THEN run.error = Trap(INTEGER_OVERFLOW) /\ Len(run.result) = 1
         ELSE run.error = Ok /\ run.result[Len(run.result)] = ZeroBits(8)
    ELSE /\ run.error = Ok
         /\ Len(run.result) = 2
         /\ run.result[1] = run.program.stack[1]
         /\ SubSeq(run.result[2], OpWidth \div 8 + 1, 8) = ZeroBits(8 - OpWidth \div 8)
         /\ Truncating

\* a signed division of a negative by a positive operand returned a
\* negative quotient, at 64 bits
C30_Witness ==
  /\ DivRemRan
  /\ run.program.op = 127
  /\ run.error = Ok
  /\ IsNegative(OperandA) /\ ~IsNegative(OperandB)
  /\ OperandA # MinBits(64)
  /\ IsNegative(ResultBits)


(***************************************************************************)
(* The LEB128 readers of leb128.rs.  A 64-bit result is the set of the     *)
(* positions 0..63 of its bits that are 1, so that | is the union and      *)
(* << adds to the positions and drops those from 64 on.  overflow_checks   *)
(* tells whether the build checks a shift by 64 or more (a panic) or masks *)
(* the shift amount to its low 6 bits.                                     *)
(***************************************************************************)
INT_TOO_LONG == "integer representation too long"
TOO_MANY_BYTES == "Too many bytes for LEB128"
PREMATURE_END == "Premature end of input"

\* LEB128Error(m)
LEB128Error(m) == [kind |-> "LEB128Error", msg |-> m]

\* the positions of the 1 bits of the byte n
BitsOfByte(n) == {i \in 0..7 : (n \div 2 ^ i) % 2 = 1}

\* ((byte & 0x7f) as i64) << shift, for shift < 64
ShiftedPayload(byte, shift) ==
  {i + shift : i \in BitsOfByte(byte % 128)} \cap 0..63

\* the loop of read_leb128_u (signed = FALSE) and read_leb128_s (signed =
\* TRUE) from the byte at index bytes_read of slice on
RECURSIVE LebLoop(_, _, _, _, _, _)
LebLoop(slice, bytes_read, result, shift, signed, overflow_checks) ==
  IF bytes_read >= Len(slice)
  THEN [res |-> LEB128Error(PREMATURE_END), value |-> {}, rest |-> slice]
  ELSE IF shift >= 64 /\ overflow_checks
  THEN [res |-> Abort, value |-> {}, rest |-> slice]
  ELSE LET byte == slice[bytes_read + 1]
           result2 == result \cup ShiftedPayload(byte, shift % 64)
           shift2 == shift + 7
       IN IF bytes_read >= 10
          THEN [res |-> LEB128Error(TOO_MANY_BYTES), value |-> {},
                rest |-> slice]
          ELSE IF byte < 128
          THEN [res |-> Ok,
                value |-> IF signed /\ shift2 < 64 /\ (shift2 - 1) \in result2
                          THEN result2 \cup shift2..63
                          ELSE result2,
                rest |-> SubSeq(slice, bytes_read + 2, Len(slice))]
          ELSE LebLoop(slice, bytes_read + 1, result2, shift2, signed,
                       overflow_checks)

read_leb128_s(slice, overflow_checks) ==
  LebLoop(slice, 0, {}, 0, TRUE, overflow_checks)

read_leb128_u(slice, overflow_checks) ==
  LebLoop(slice, 0, {}, 0, FALSE, overflow_checks)

\* encodings: up to MaxLebBytes continuation bytes from a few values, then a
\* final byte or the end of the input, then one byte that is not part of
\* the integer
MaxLebBytes == 11

ContinuationBytes == {128, 255}
FinalBytes == {0, 1, 15, 16, 63, 64, 112, 127}

LebInputs ==
  {[i \in 1..n |-> c] \o f :
     n \in 0..MaxLebBytes, c \in ContinuationBytes,
     f \in {<<>>} \cup {<<b, 11>> : b \in FinalBytes}}

\* one integer of the declared width bits read from the start of a section
ReadLeb ==
  /\ ~compiled.called
  /\ \E slice \in LebInputs, signed \in BOOLEAN, bits \in {32, 64},
        overflow_checks \in BOOLEAN :
       LET r == IF signed THEN read_leb128_s(slice, overflow_checks)
                ELSE read_leb128_u(slice, overflow_checks)
       IN compiled' = [called |-> TRUE, ids |-> <<>>, res |-> r.res,
                       decl |-> [slice |-> slice, signed |-> signed,
                                 bits |-> bits, value |-> r.value,
                                 rest |-> r.rest]]
  /\ UNCHANGED <<registry, refcounts, zombie_instances, next_id, tables,
                 memories, instances, cur, last, panicked, run, hostmem>>

NextLeb == ReadLeb

SpecLeb == Init /\ [][NextLeb]_vars

\* the number of bytes of the encoding at the start of slice: up to its
\* first byte below 128, or 0 when there is none
RECURSIVE EncodingLen(_, _)
EncodingLen(slice, k) ==
  IF k > Len(slice) THEN 0
  ELSE IF slice[k] < 128 THEN k
  ELSE EncodingLen(slice, k + 1)

\* ceil(bits / 7)
MaxEncodingLen(bits) == (bits + 6) \div 7

\* the bits of the last byte of a longest encoding that lie beyond the
\* declared width are zero (unsigned) or copies of the sign bit (signed)
HighBitsCanonical(final, bits, signed) ==
  LET used == bits - 7 * (MaxEncodingLen(bits) - 1)
      high == {i \in BitsOfByte(final) : i >= used /\ i < 7}
  IN IF ~signed THEN high = {}
     ELSE IF (used - 1) \in BitsOfByte(final) THEN high = used..6
     ELSE high = {}

\* what the stated rule gives for the encoding at the start of slice
Canonical(slice, bits, signed) ==
  LET n == EncodingLen(slice, 1)
  IN IF n = 0
     THEN IF Len(slice) >= MaxEncodingLen(bits) THEN Malformed(INT_TOO_LONG)
          ELSE Malformed(UNEXPECTED_END)
     ELSE IF n > MaxEncodingLen(bits) THEN Malformed(INT_TOO_LONG)
     ELSE IF n = MaxEncodingLen(bits)
             /\ ~HighBitsCanonical(slice[n], bits, signed)
     THEN Malformed(INT_TOO_LARGE)
     ELSE Ok

\* C31: for a declared width of b bits the reader accepts every encoding of
\* at most ceil(b/7) bytes whose bits beyond the width are a sign extension
\* (zero for unsigned) and rejects every other: longer ones with 'integer
\* representation too long', ones with stray high bits with 'integer too
\* large', truncated ones with 'unexpected end of section or function'.
C31_LebCanonical ==
  (compiled.called /\ compiled.ids = <<>>) =>
    compiled.res = Canonical(compiled.decl.slice, compiled.decl.bits,
                             compiled.decl.signed)


\* the function-base and control-base stacks of the activation A describe
\* the calls in progress: they are equally long, every control base is the
\* index of a frame on the control stack, the bases of inner calls lie
\* above those of outer ones, and the function base pushed with a control
\* base is the stack_len (the locals_start) of the frame it designates
BasesConsistent(A) ==
  /\ Len(A.func_bases) = Len(A.ctrl_bases)
  /\ \A j \in DOMAIN A.ctrl_bases :
       /\ A.ctrl_bases[j] < Len(A.control)
       /\ A.control[A.ctrl_bases[j] + 1].stack_len = A.func_bases[j]
       /\ j > 1 => A.ctrl_bases[j - 1] < A.ctrl_bases[j]

\* C32: call-frame bookkeeping. At every instruction boundary the
\* function-base stack and the control-base stack have equal length, one
\* entry per return frame on the control stack, and the top function base
\* is the locals_start of the function whose code is executing, also after
\* a callee has left by end, by return or by a br to its outermost label.
C32_FrameBookkeeping ==
  run.status = "running" => \A k \in DOMAIN run.acts : BasesConsistent(run.acts[k])



\* ------------------------------------------------------------------
\* SpecReentry: two instances that import one table; function 0 of each is a
\* call_indirect on slot e of that table, function 1 returns at once
ReentryVectors ==
  {<<Function(S0, FALSE, BodyCallIndirect(e, 0)), Function(S0, FALSE, BodyEnd)>> :
     e \in {0, 1}}

ModulesReentry ==
  {MkModule("import", "none", fs, <<>>, <<>>, NoStart) : fs \in ReentryVectors}

\* the raw values the host writes in SpecReentry: null, a handle of function
\* 0 of instance 1, a handle of function 1 of instance 2
RawReentryValues == {NULL, <<1, 1>>, <<2, 2>>}

NextReentry ==
  \/ HostTableNew(MaxTableLen, MaxTableLen)
  \/ \E t \in TableIds, idx \in 0..1, v \in RawReentryValues : HostTableSet(t, idx, v)
  \/ \E i \in InstIds : HostRegisterExternal(i)
  \/ \E i \in InstIds : Invoke(i, 0)
  \/ Instantiate(ModulesReentry)

SpecReentry == Init /\ [][NextReentry]_vars

\* C33: registry re-entrancy. No invoke fails with a double borrow of the
\* registry: a cross-instance call_indirect executed inside a callee that was
\* itself entered by a cross-instance call_indirect completes.
C33_NoDoubleBorrow == ~panicked



\* C34: registry cleanup. Once an instance's weak target has been dropped and
\* its refcount is zero, neither the id-to-weak-handle map nor the refcount
\* map holds an entry for its id.
C34_RegistryCleanup ==
  \A id \in InstIds :
    (instances[id].holder = "dropped" /\ RefCount(id) = 0)
      => (id \notin DOMAIN registry /\ id \notin DOMAIN refcounts)



\* ------------------------------------------------------------------
\* SpecBranch: br, br_if and br_table on activations as validated code
\* leaves them: frame heights do not decrease towards the top of the control
\* stack, and the operand stack holds at least the target's arity above the
\* innermost frame's height

\* 0x0d br_if (lines 938-942)
OpBrIf(B, depth) ==
  IF B.stack = <<>> THEN Fail(B, Trap(STACK_UNDERFLOW))
  ELSE LET cond == B.stack[Len(B.stack)]
           C == [B EXCEPT !.stack = Pop(@)]
       IN IF cond # 0 THEN OpBr(C, depth) ELSE Continue(C)

\* 0x0e br_table (lines 943-954)
OpBrTable(B, targets, default_t) ==
  IF B.stack = <<>> THEN Fail(B, Trap(STACK_UNDERFLOW))
  ELSE LET v == B.stack[Len(B.stack)]
           C == [B EXCEPT !.stack = Pop(@)]
           depth == IF v < Len(targets) THEN targets[v + 1] ELSE default_t
       IN OpBr(C, depth)

MaxControl == 3
MaxHeight == 2
MaxExtra == 2

\* the frames block (with and without result) and loop push: arity and
\* has_result
FrameKinds == {<<0, FALSE>>, <<1, TRUE>>, <<0, TRUE>>}

\* control stacks of n frames; frame k has dest_pc 10 * k
RECURSIVE BranchControls(_)
BranchControls(n) ==
  IF n = 0 THEN {<<>>}
  ELSE {Append(c, ControlFrame(h, 10 * n, k[1], k[2])) :
          <<c, h, k>> \in {t \in BranchControls(n - 1) \X (0..MaxHeight) \X FrameKinds :
                             t[1] = <<>> \/ t[1][Len(t[1])].stack_len <= t[2]}}

\* an operand stack of n distinct values
Values(n) == [i \in 1..n |-> 10 + i]

BranchActivation(control, extra, operand) ==
  Activation(1, 0,
             Values(control[Len(control)].stack_len + extra) \o operand,
             control, <<0>>, <<0>>)

BranchResult(op, pre, r) ==
  [status |-> "done", program |-> [op |-> op, pre |-> pre],
   acts |-> <<r.act>>, result |-> <<>>, error |-> r.err]

ExecBranch ==
  /\ run.status = "none"
  /\ \E n \in 1..MaxControl :
       \E control \in BranchControls(n), extra \in 0..MaxExtra, d \in 0..(n - 1),
          e \in 0..(n - 1) :
         /\ extra >= control[n - d].arity
         /\ extra >= control[n - e].arity
         /\ \/ /\ e = d
               /\ LET A == BranchActivation(control, extra, <<>>)
                  IN run' = BranchResult([name |-> "br", depth |-> d], A, OpBr(A, d))
            \/ /\ e = d
               /\ \E cond \in {0, 1} :
                    LET A == BranchActivation(control, extra, <<cond>>)
                    IN run' = BranchResult([name |-> "br_if", depth |-> d], A,
                                           OpBrIf(A, d))
            \/ \E v \in 0..2 :
                 LET A == BranchActivation(control, extra, <<v>>)
                 IN run' = BranchResult([name |-> "br_table", targets |-> <<d>>,
                                         default_t |-> e], A,
                                        OpBrTable(A, <<d>>, e))
  /\ UNCHANGED <<registry, refcounts, zombie_instances, next_id, tables,
                 memories, instances, cur, last, panicked, hostmem, compiled>>

NextBranch == ExecBranch

SpecBranch == Init /\ [][NextBranch]_vars

\* what the state says of the instruction that ran
BranchOp == run.program.op
BranchPre == run.program.pre
BranchPost == run.acts[1]

\* the operand stack when the branch is taken: br_if and br_table have
\* popped their operand
BranchStack == IF BranchOp.name = "br" THEN BranchPre.stack ELSE Pop(BranchPre.stack)
BranchOperand == BranchPre.stack[Len(BranchPre.stack)]

BranchTaken == BranchOp.name = "br_if" => BranchOperand # 0

EffectiveDepth ==
  IF BranchOp.name = "br_table"
  THEN IF BranchOperand < Len(BranchOp.targets)
       THEN BranchOp.targets[BranchOperand + 1] ELSE BranchOp.default_t
  ELSE BranchOp.depth

BranchTarget == BranchPre.control[Len(BranchPre.control) - EffectiveDepth]

\* C35: runtime branch. A taken branch of effective depth d below the control
\* depth removes exactly d + 1 control frames, sets pc to the target's
\* dest_pc and leaves the value stack at the target's entry height plus its
\* arity: the top arity values are those that were on top before, in order,
\* and the values below the entry height are unchanged.
C35_Branch ==
  (run.status = "done" /\ BranchTaken /\ EffectiveDepth < Len(BranchPre.control))
    => LET T == BranchTarget
           before == BranchStack
           after == BranchPost.stack
       IN /\ run.error = Ok
          /\ BranchPost.control =
               SubSeq(BranchPre.control, 1, Len(BranchPre.control) - (EffectiveDepth + 1))
          /\ BranchPost.pc = T.dest_pc
          /\ Len(after) = T.stack_len + T.arity
          /\ \A i \in 1..T.arity :
               after[T.stack_len + i] = before[Len(before) - T.arity + i]
          /\ \A i \in 1..T.stack_len : after[i] = before[i]

\* a taken br_if to an outer frame with a result moved its value down over
\* values the branch discards
C35_Witness ==
  /\ run.status = "done"
  /\ BranchOp.name = "br_if"
  /\ BranchTaken
  /\ EffectiveDepth >= 1
  /\ BranchTarget.arity = 1
  /\ Len(BranchStack) > BranchTarget.stack_len + 1
  /\ BranchTarget.stack_len >= 1
  /\ BranchPost.stack = SubSeq(BranchStack, 1, BranchTarget.stack_len)
                          \o <<BranchStack[Len(BranchStack)]>>



\* ------------------------------------------------------------------
\* SpecBlockType: one block, loop or if with every kind of block-type byte
\* in a function () -> () of a module whose only type is () -> ()
VOID == 64
ValTypeBytes == {124, 125, 126, 127}

\* 0x40, the value types, the 'any' byte 0xff, the type indices 0 (declared)
\* and 1, 63 (not declared), and the negative one-byte s33 values 0x41, 0x7b
BlockTypeBytes == {VOID} \cup ValTypeBytes \cup {255, 0, 1, 63, 65, 123}

\* what a construct's arm holds: nothing, nop, i32.const 0, unreachable
Arms == {<<>>, <<1>>, <<65, 0>>, <<0>>}

BlockTypeBodies ==
  {<<op, bt>> \o a \o <<11>> \o post \o <<11>> :
     op \in {2, 3}, bt \in BlockTypeBytes, a \in Arms, post \in {<<>>, <<26>>}}
  \cup {<<65, 0, 4, bt>> \o a \o <<11>> \o post \o <<11>> :
          bt \in BlockTypeBytes, a \in Arms, post \in {<<>>, <<26>>}}
  \cup {<<65, 0, 4, bt>> \o a \o <<5>> \o b \o <<11>> \o post \o <<11>> :
          bt \in BlockTypeBytes, a \in Arms, b \in Arms, post \in {<<>>, <<26>>}}

CompileBlockType ==
  /\ ~compiled.called
  /\ \E body \in BlockTypeBodies :
       LET S == validate_function(body, FALSE)
       IN compiled' = [called |-> TRUE, ids |-> <<1, 3, 10>>, res |-> S.res,
                       decl |-> [body |-> body, memory |-> FALSE, side |-> S.side]]
  /\ UNCHANGED <<registry, refcounts, zombie_instances, next_id, tables,
                 memories, instances, cur, last, panicked, run, hostmem>>

NextBlockType == CompileBlockType

SpecBlockType == Init /\ [][NextBlockType]_vars

\* the number of types the module declares
DeclaredTypes == 1

\* the block-type bytes of the constructs of the validated body
BlockTypesRead == {compiled.decl.body[p + 2] : p \in ConstructOffsets}

\* C36: block-type decoding. A validated body's block types are 0x40, one of
\* the four value-type bytes or a non-negative type index that is declared;
\* in particular none is the byte 0xff of the validator's 'any' type.
C36_BlockTypeDecoding ==
  Validated =>
    \A bt \in BlockTypesRead :
      bt = VOID \/ bt \in ValTypeBytes \/ bt \in 0..(DeclaredTypes - 1)



\* ------------------------------------------------------------------
\* SpecSound: modules of three functions () -> () that are validated and,
\* when Module::compile accepts them, instantiated and invoked at function 0
\* the instructions the bytes of a code section decode to, from offset pc on
\* the instruction whose opcode is op and whose immediate byte is imm, and
\* the number of bytes it takes
InstrOf(op, imm) ==
  CASE op = 0 -> Unreachable
    [] op = 1 -> Nop
    [] op = 2 -> Block(imm \notin {VOID, 0})
    [] op = 3 -> Loop
    [] op = 4 -> If(imm \notin {VOID, 0})
    [] op = 11 -> End
    [] op = 12 -> Br(imm)
    [] op = 15 -> Return
    [] op = 16 -> Call(imm)
    [] op = 26 -> Drop
    [] op = 65 -> I32Const(imm)
    [] OTHER -> Instr("other", op, FALSE)

InstrLen(op) == IF op \in {2, 3, 4, 12, 16, 65} THEN 2 ELSE 1

RECURSIVE Decode(_, _)
Decode(bytes, pc) ==
  IF pc >= Len(bytes) THEN <<>>
  ELSE <<InstrOf(bytes[pc + 1], IF pc + 1 < Len(bytes) THEN bytes[pc + 2] ELSE 0)>>
         \o Decode(bytes, pc + InstrLen(bytes[pc + 1]))

\* a code section entry: the body's size (locals included), an empty locals
\* vector, the instructions
CodeEntry(body) == <<Len(body) + 1, 0>> \o body

RECURSIVE CodeBytes(_)
CodeBytes(bodies) ==
  IF bodies = <<>> THEN <<>> ELSE CodeEntry(Head(bodies)) \o CodeBytes(Tail(bodies))

\* the offset of the first instruction of function j (from 0)
BodyStart(bodies, j) == Len(CodeBytes(SubSeq(bodies, 1, j))) + 2

\* the pc of the instruction at a byte offset
PcOf(bytes, offset) == Len(Decode(SubSeq(bytes, 1, offset), 0)) + 1

\* the pieces a caller's body is made of: nothing, nop, i32.const 0 drop,
\* block end
Pieces == <<<<>>, <<1>>, <<65, 0, 26>>, <<2, 64, 11>>>>

\* the callee: br 0, nothing, return, block br 1 end, and a drop that no
\* value precedes
Callees == <<<<12, 0, 11>>, <<11>>, <<15, 11>>, <<2, 64, 12, 1, 11, 11>>,
             <<26, 11>>>>

\* function 1: 24 nop, a body of 26 bytes
NopCount == 24
NopBody == [i \in 1..(NopCount + 1) |-> IF i <= NopCount THEN 1 ELSE 11]

SoundCount == Len(Pieces) * Len(Pieces) * 2 * Len(Callees)

\* module p: function 0 calls function 1 or 2 between two pieces, function 2
\* is one of the callees
SoundBodies(p) ==
  LET pre == Pieces[(p % 4) + 1]
      post == Pieces[((p \div 4) % 4) + 1]
      k == ((p \div 16) % 2) + 1
      g == Callees[(p \div 32) + 1]
  IN <<pre \o <<16, k>> \o post \o <<11>>, NopBody, g>>

\* the first error of a sequence of results, Ok if there is none
RECURSIVE FirstError(_)
FirstError(res) ==
  IF res = <<>> THEN Ok
  ELSE IF Head(res) # Ok THEN Head(res) ELSE FirstError(Tail(res))

\* Module::compile validates the bodies in order
ValidateBodies(bodies) ==
  FirstError([j \in 1..Len(bodies) |->
                validate_function_in(bodies[j], FALSE, [i \in 1..Len(bodies) |-> S0]).res])

\* the instance of module p and the invoke of its function 0
SoundProgram(p) ==
  LET bodies == SoundBodies(p)
      bytes == CodeBytes(bodies)
  IN Program(<<RunModule(TRUE, Decode(bytes, 0),
                         [j \in 1..Len(bodies) |->
                            RunOwnedWasm(FALSE, PcOf(bytes, BodyStart(bodies, j - 1)))])>>,
             1, 0)

\* the catalogue: every module's instance and what Module::compile returns
\* for it
SoundPrograms == [p \in 0..(SoundCount - 1) |-> SoundProgram(p)]
SoundVerdicts == [p \in 0..(SoundCount - 1) |-> ValidateBodies(SoundBodies(p))]

\* Module::compile of module p, then Instance::invoke of function 0 up to the
\* point where interpret starts
SoundInvoke ==
  /\ run.status = "none"
  /\ \E p \in 0..(SoundCount - 1) :
       \E v \in {SoundVerdicts[p]} :
         run' = IF v = Ok THEN RunInvokeStart(p, SoundPrograms[p])
                ELSE [NoRun EXCEPT !.status = "done", !.program = p, !.error = v]
  /\ UNCHANGED <<registry, refcounts, zombie_instances, next_id, tables,
                 memories, instances, cur, last, panicked, hostmem,
                 compiled>>

SoundStep ==
  /\ run.status = "running"
  /\ run' = RunAfter(run, SoundPrograms[run.program])
  /\ UNCHANGED <<registry, refcounts, zombie_instances, next_id, tables,
                 memories, instances, cur, last, panicked, hostmem,
                 compiled>>

NextSound == SoundInvoke \/ SoundStep

SpecSound == Init /\ [][NextSound]_vars

\* C37: validator soundness for the operand stack. Running a function of a
\* module the validator accepted never pops an empty value stack (no 'stack
\* underflow' trap) and never leaves the value stack below the entry height
\* of the innermost active control frame.
C37_ValidatorSound ==
  /\ run.error # Trap(STACK_UNDERFLOW)
  /\ run.status = "running" =>
       \A k \in DOMAIN run.acts :
         run.acts[k].control # <<>> =>
           Len(run.acts[k].stack) >=
             run.acts[k].control[Len(run.acts[k].control)].stack_len



\* the zombie id is the only owner of its table: the host holds no handle of
\* the table and no other live instance has it
PrivateTable(id) ==
  /\ instances[id].table # 0
  /\ ~tables[instances[id].table].hostHeld
  /\ \A j \in InstIds \ {id} :
       instances[j].holder \in AliveHolders => instances[j].table # instances[id].table

\* every funcref that names id is a slot of id's own table
OnlySelfHeld(id) ==
  /\ SlotsOf(id) # {}
  /\ \A p \in SlotsOf(id) : p[1] = instances[id].table
  /\ RefCount(id) = Cardinality(SlotsOf(id))

\* C38: no ownership cycle through the registry. There is no reachable state
\* in which a zombie holdover is kept alive solely by handles stored in a
\* table that only that same zombie owns.
C38_NoOwnershipCycle ==
  \A id \in zombie_instances : ~(PrivateTable(id) /\ OnlySelfHeld(id))



\* ------------------------------------------------------------------
\* SpecMemSize: a WasmMemory created with initial <= maximum, up to and past
\* the 65536 pages of a 32-bit address space, then grown and written
MemSizeInitials == {0, 1, 2, MAX_PAGES, MAX_PAGES + 1}
MemSizeMaximums == {1, 2, MAX_PAGES, MAX_PAGES + 1}
MemWriteOffsets == {0, PAGE_SIZE - 1, PAGE_SIZE}
MemWriteItems == {<<1>>, <<1, 2>>}

\* WasmMemory::new(initial, maximum) with initial <= maximum
MemNewLimits ==
  /\ ~hostmem.m.live
  /\ \E initial \in MemSizeInitials, maximum \in MemSizeMaximums :
       /\ initial <= maximum
       /\ hostmem' = [m |-> WasmMemory_new(initial, maximum), pre |-> NoMemory,
                      op |-> MemOp("new", 0, Wide(0, 0), Wide(0, 0), 0, 0, Ok)]
  /\ UNCHANGED <<registry, refcounts, zombie_instances, next_id, tables,
                 memories, instances, cur, last, panicked, run,
                 compiled>>

\* WasmMemory::write_bytes(offset, bytes), on memories whose byte length
\* fits the model's integers
MemWriteBytes ==
  /\ hostmem.m.live
  /\ hostmem.m.current <= MemPagesBound
  /\ Cardinality(DOMAIN hostmem.m.data) <= MemDataBound
  /\ \E offset \in MemWriteOffsets, items \in MemWriteItems :
       \E r \in {write_bytes(hostmem.m, offset, items)} :
         hostmem' = [m |-> r[1], pre |-> hostmem.m,
                     op |-> MemOp("write_bytes", 0, WideOf(offset), Wide(0, 0),
                                  Len(items), items, MemErr(r[2]))]
  /\ UNCHANGED <<registry, refcounts, zombie_instances, next_id, tables,
                 memories, instances, cur, last, panicked, run,
                 compiled>>

\* a store, on memories whose byte length fits the model's integers
MemStoreSmall == hostmem.m.current <= MemPagesBound /\ MemStore

NextMemSize == MemNewLimits \/ MemGrow \/ MemStoreSmall \/ MemWriteBytes

SpecMemSize == Init /\ [][NextMemSize]_vars

\* C39: memory size invariant. A WasmMemory created with initial <= maximum
\* has, after any grow, store and write_bytes, current <= maximum <= 65536,
\* and every byte it holds lies in the current * 65536 bytes of its buffer.
C39_MemorySize ==
  hostmem.m.live =>
    /\ hostmem.m.current <= hostmem.m.maximum
    /\ hostmem.m.maximum <= MAX_PAGES
    /\ \A a \in DOMAIN hostmem.m.data : a \div PAGE_SIZE < hostmem.m.current

====
